---- MODULE Spec2Model ----
(***************************************************************************)
(* Model of the C-to-Java/Python transpiler pipeline:                      *)
(*   LexicalAnalyzer (tokenize)  ->  SyntaxAnalyzer (parse)                *)
(*   ->  CodeGenerator (generateJava / generatePython).                    *)
(*                                                                         *)
(* Source text and generated text are strings; a code unit is a string of  *)
(* length one.  Positions are 0-based as in the source, so the code unit   *)
(* at position p of s is SubSeq(s, p+1, p+1).                              *)
(***************************************************************************)
EXTENDS Integers, Sequences, FiniteSets, TLC

\* lexer, parser: the LexicalAnalyzer and the SyntaxAnalyzer of the run, Null
\*   before they are constructed;
\* tokenList, abstractSyntaxTree, output: what tokenize, parse and the
\*   generator returned;
\* stage: the stage the run is in;
\* iterations: how many times the loop of the current stage has run its body
VARIABLES lexer, tokenList, parser, abstractSyntaxTree, outputLanguage,
          output, stage, iterations

\* The CCompiler component:
\* react: the values of its useState hooks, with every set... call applied;
\* render: the values that the handlers of the last render closed over;
\* runs: the invocations of compileCode that passed the guard, each with
\*   the constants of its closure and its local constants;
\* pc: for each of these invocations, the stage it resumes with
VARIABLES react, render, runs, pc

ui == <<react, render, runs, pc>>

vars == <<lexer, tokenList, parser, abstractSyntaxTree, outputLanguage,
          output, stage, iterations, ui>>

(***************************************************************************)
(* JavaScript values                                                       *)
(***************************************************************************)
\* null / undefined where a node or a token is expected
Null == [type |-> "null"]

\* code[position]; "" stands for undefined (out of range), which no code
\* unit equals
charAt(code, position) ==
    IF position >= 0 /\ position < Len(code)
    THEN SubSeq(code, position + 1, position + 1)
    ELSE ""

\* String.prototype.includes
RECURSIVE includesFrom(_, _, _)
includesFrom(s, sub, i) ==
    IF i + Len(sub) > Len(s) + 1 THEN FALSE
    ELSE IF SubSeq(s, i, i + Len(sub) - 1) = sub THEN TRUE
    ELSE includesFrom(s, sub, i + 1)

includes(s, sub) == includesFrom(s, sub, 1)

(***************************************************************************)
(* LexicalAnalyzer                                                         *)
(***************************************************************************)
keywords ==
    { "int", "float", "double", "char", "void", "if", "else", "while", "for",
      "return", "include", "main", "printf", "scanf", "bool", "long", "short",
      "break", "continue", "switch", "case", "default", "const", "static",
      "struct", "union", "enum", "typedef", "extern", "register", "auto",
      "volatile", "signed", "unsigned", "goto", "do", "sizeof" }

Letters ==
    { "a", "b", "c", "d", "e", "f", "g", "h", "i", "j", "k", "l", "m",
      "n", "o", "p", "q", "r", "s", "t", "u", "v", "w", "x", "y", "z",
      "A", "B", "C", "D", "E", "F", "G", "H", "I", "J", "K", "L", "M",
      "N", "O", "P", "Q", "R", "S", "T", "U", "V", "W", "X", "Y", "Z" }

Digits == { "0", "1", "2", "3", "4", "5", "6", "7", "8", "9" }

\* the code units of the model's alphabet that the regular expression \s
\* matches
WhitespaceChars == { " ", "\t", "\n", "\r", "\f" }

isLetter(char) == char \in Letters

isDigit(char) == char \in Digits

isOperator(char) == Len(char) = 1 /\ includes("+-*/%=<>!&|^~", char)

isDelimiter(char) == Len(char) = 1 /\ includes("(){}[];,#.", char)

twoCharOperators ==
    { "==", "!=", "<=", ">=", "++", "--", "&&", "||",
      "+=", "-=", "*=", "/=", "%=", "<<", ">>" }

\* new LexicalAnalyzer(code)
LexicalAnalyzer(code) ==
    [code |-> code, position |-> 0, line |-> 1, column |-> 1, tokens |-> <<>>]

Token(type, value, line, column) ==
    [type |-> type, value |-> value, line |-> line, column |-> column]

EOFToken == [type |-> "EOF", value |-> Null]

advance(L) ==
    IF charAt(L.code, L.position) = "\n"
    THEN [L EXCEPT !.line = @ + 1, !.column = 1, !.position = @ + 1]
    ELSE [L EXCEPT !.column = @ + 1, !.position = @ + 1]

\* "" stands for the null that peek returns past the end
peek(L, offset) ==
    LET pos == L.position + offset
    IN  IF pos < Len(L.code) THEN charAt(L.code, pos) ELSE ""

RECURSIVE skipSingleLineComment(_)
skipSingleLineComment(L) ==
    IF L.position < Len(L.code) /\ charAt(L.code, L.position) # "\n"
    THEN skipSingleLineComment(advance(L))
    ELSE L

RECURSIVE skipMultiLineCommentLoop(_)
skipMultiLineCommentLoop(L) ==
    IF L.position < Len(L.code) - 1
    THEN IF charAt(L.code, L.position) = "*"
            /\ charAt(L.code, L.position + 1) = "/"
         THEN advance(advance(L))
         ELSE skipMultiLineCommentLoop(advance(L))
    ELSE L

skipMultiLineComment(L) == skipMultiLineCommentLoop(advance(advance(L)))

RECURSIVE skipWhitespace(_)
\* skipWhitespace moving the position without counting the column
skipWhitespace_ColumnKept(L) ==
    IF L.position < Len(L.code)
       /\ charAt(L.code, L.position) \in WhitespaceChars
       /\ charAt(L.code, L.position) # "\n"
    THEN skipWhitespace([L EXCEPT !.position = @ + 1])
    ELSE L

skipWhitespace(L) ==
    IF L.position < Len(L.code)
       /\ charAt(L.code, L.position) \in WhitespaceChars
       /\ charAt(L.code, L.position) # "\n"
    THEN skipWhitespace(advance(L))
    ELSE L

\* the while loops of the read* methods: they return the lexer after the
\* loop and the accumulated lexeme
RECURSIVE readIdentifierLoop(_, _)
readIdentifierLoop(L, value) ==
    IF L.position < Len(L.code)
       /\ (isLetter(charAt(L.code, L.position))
           \/ isDigit(charAt(L.code, L.position))
           \/ charAt(L.code, L.position) = "_")
    THEN readIdentifierLoop(advance(L), value \o charAt(L.code, L.position))
    ELSE [L |-> L, value |-> value]

readIdentifier(L) ==
    LET r    == readIdentifierLoop(L, "")
        type == IF r.value \in keywords THEN "KEYWORD" ELSE "IDENTIFIER"
    IN  [r.L EXCEPT !.tokens =
            Append(@, Token(type, r.value, L.line, L.column))]

RECURSIVE readNumberLoop(_, _, _)
readNumberLoop(L, value, hasDecimal) ==
    IF L.position < Len(L.code)
       /\ (isDigit(charAt(L.code, L.position))
           \/ (charAt(L.code, L.position) = "." /\ ~hasDecimal))
    THEN readNumberLoop(advance(L), value \o charAt(L.code, L.position),
                        hasDecimal \/ charAt(L.code, L.position) = ".")
    ELSE [L |-> L, value |-> value]

\* readNumber started as if a decimal point had been read already
readNumber_DotRefused(L) ==
    LET r == readNumberLoop(L, "", TRUE)
    IN  [r.L EXCEPT !.tokens =
            Append(@, Token("NUMBER", r.value, L.line, L.column))]

readNumber(L) ==
    LET r == readNumberLoop(L, "", FALSE)
    IN  [r.L EXCEPT !.tokens =
            Append(@, Token("NUMBER", r.value, L.line, L.column))]

\* the loop shared in shape by readString (quote = "\"") and
\* readCharLiteral (quote = "'")
RECURSIVE readQuotedLoop(_, _, _)
\* readQuotedLoop copying a backslash as an ordinary character, so that the
\* character after it is examined on its own
readQuotedLoop_EscapeNotPaired(L, value, quote) ==
    IF L.position < Len(L.code) /\ charAt(L.code, L.position) # quote
    THEN readQuotedLoop(advance(L), value \o charAt(L.code, L.position),
                        quote)
    ELSE [L |-> L, value |-> value]

readQuotedLoop(L, value, quote) ==
    IF L.position < Len(L.code) /\ charAt(L.code, L.position) # quote
    THEN IF charAt(L.code, L.position) = "\\"
            /\ L.position + 1 < Len(L.code)
         THEN LET L1 == advance(L)
                  v1 == value \o charAt(L.code, L.position)
              IN  IF L1.position < Len(L1.code)
                  THEN readQuotedLoop(advance(L1),
                                      v1 \o charAt(L1.code, L1.position),
                                      quote)
                  ELSE readQuotedLoop(L1, v1, quote)
         ELSE readQuotedLoop(advance(L),
                             value \o charAt(L.code, L.position), quote)
    ELSE [L |-> L, value |-> value]

readString(L) ==
    LET r  == readQuotedLoop(advance(L), "", "\"")
        L2 == IF r.L.position < Len(r.L.code) THEN advance(r.L) ELSE r.L
    IN  [L2 EXCEPT !.tokens =
            Append(@, Token("STRING", r.value, L.line, L.column))]

readCharLiteral(L) ==
    LET r  == readQuotedLoop(advance(L), "", "'")
        L2 == IF r.L.position < Len(r.L.code) THEN advance(r.L) ELSE r.L
    IN  [L2 EXCEPT !.tokens =
            Append(@, Token("STRING", r.value, L.line, L.column))]

readOperator(L) ==
    LET value   == charAt(L.code, L.position)
        L1      == advance(L)
        twoChar == value \o charAt(L1.code, L1.position)
        two     == L1.position < Len(L1.code) /\ twoChar \in twoCharOperators
        L2      == IF two THEN advance(L1) ELSE L1
    IN  [L2 EXCEPT !.tokens =
            Append(@, Token("OPERATOR", IF two THEN twoChar ELSE value,
                            L.line, L.column))]

readDelimiter(L) ==
    [advance(L) EXCEPT !.tokens =
        Append(@, Token("DELIMITER", charAt(L.code, L.position),
                        L.line, L.column))]

\* tokenizeIteration with the last branch leaving the lexer where it is
tokenizeIteration_StrayNotSkipped(L) ==
    LET W    == skipWhitespace(L)
        char == charAt(W.code, W.position)
    IN  IF W.position >= Len(W.code) THEN W
        ELSE IF char = "/" /\ peek(W, 1) = "/" THEN skipSingleLineComment(W)
        ELSE IF char = "/" /\ peek(W, 1) = "*" THEN skipMultiLineComment(W)
        ELSE IF isLetter(char) \/ char = "_" THEN readIdentifier(W)
        ELSE IF isDigit(char) THEN readNumber(W)
        ELSE IF char = "\"" THEN readString(W)
        ELSE IF char = "'" THEN readCharLiteral(W)
        ELSE IF isOperator(char) THEN readOperator(W)
        ELSE IF isDelimiter(char) THEN readDelimiter(W)
        ELSE IF char = "\n"
             THEN [advance(W) EXCEPT !.tokens =
                      Append(@, Token("NEWLINE", "\n", W.line, W.column))]
        ELSE W

\* one iteration of the while loop of tokenize; when the loop breaks after
\* skipWhitespace the lexer is left at the end of the code
tokenizeIteration(L) ==
    LET W    == skipWhitespace(L)
        char == charAt(W.code, W.position)
    IN  IF W.position >= Len(W.code) THEN W
        ELSE IF char = "/" /\ peek(W, 1) = "/" THEN skipSingleLineComment(W)
        ELSE IF char = "/" /\ peek(W, 1) = "*" THEN skipMultiLineComment(W)
        ELSE IF isLetter(char) \/ char = "_" THEN readIdentifier(W)
        ELSE IF isDigit(char) THEN readNumber(W)
        ELSE IF char = "\"" THEN readString(W)
        ELSE IF char = "'" THEN readCharLiteral(W)
        ELSE IF isOperator(char) THEN readOperator(W)
        ELSE IF isDelimiter(char) THEN readDelimiter(W)
        ELSE IF char = "\n"
             THEN [advance(W) EXCEPT !.tokens =
                      Append(@, Token("NEWLINE", "\n", W.line, W.column))]
        ELSE advance(W)

\* the statements after the loop of tokenize
tokenizeEnd(L) == [L EXCEPT !.tokens = Append(@, EOFToken)]

\* tokenize() run to completion; returns this.tokens
RECURSIVE tokenizeLoop(_)
tokenizeLoop(L) ==
    IF L.position < Len(L.code) THEN tokenizeLoop(tokenizeIteration(L))
    ELSE L

tokenize(code) == tokenizeEnd(tokenizeLoop(LexicalAnalyzer(code))).tokens

(***************************************************************************)
(* SyntaxAnalyzer                                                          *)
(*                                                                         *)
(* The parser's methods read this.tokens and move this.position; here each *)
(* takes the token array T and the position p at entry and returns the     *)
(* node it returns in the source together with the position at exit.       *)
(***************************************************************************)
Result(node, position) == [node |-> node, position |-> position]

\* tokens.filter(token => token.type !== "NEWLINE")
RECURSIVE filterNewlines(_)
filterNewlines(T) ==
    IF T = <<>> THEN <<>>
    ELSE IF Head(T).type # "NEWLINE"
         THEN <<Head(T)>> \o filterNewlines(Tail(T))
         ELSE filterNewlines(Tail(T))

\* new SyntaxAnalyzer(tokens)
SyntaxAnalyzer(T) ==
    [tokens |-> filterNewlines(T), position |-> 0,
     ast |-> [type |-> "Program", body |-> <<>>]]

getCurrentToken(T, p) == IF p >= 0 /\ p < Len(T) THEN T[p + 1] ELSE Null

\* token && token.value === s ; the value of the EOF token is null, which
\* equals no string
valueIs(token, s) ==
    token # Null /\ token.type # "EOF" /\ token.value = s

\* skipToken: the position after the call
skipToken(T, p, expectedValue) ==
    IF valueIs(getCurrentToken(T, p), expectedValue) THEN p + 1 ELSE p

\* the number parseFloat returns for a NUMBER lexeme (digits with at most
\* one "."), represented by the decimal text JavaScript prints for it:
\* leading zeros of the integer part and trailing zeros of the fraction are
\* not part of the number
RECURSIVE stripLeadingZeros(_)
stripLeadingZeros(s) ==
    IF Len(s) > 1 /\ Head(s) = "0" THEN stripLeadingZeros(Tail(s)) ELSE s

RECURSIVE stripTrailingZeros(_)
stripTrailingZeros(s) ==
    IF Len(s) > 0 /\ SubSeq(s, Len(s), Len(s)) = "0"
    THEN stripTrailingZeros(SubSeq(s, 1, Len(s) - 1))
    ELSE s

RECURSIVE indexOfFrom(_, _, _)
indexOfFrom(s, c, i) ==
    IF i > Len(s) THEN 0
    ELSE IF SubSeq(s, i, i) = c THEN i
    ELSE indexOfFrom(s, c, i + 1)

parseFloat(lexeme) ==
    LET dot  == indexOfFrom(lexeme, ".", 1)
        int  == IF dot = 0 THEN lexeme ELSE SubSeq(lexeme, 1, dot - 1)
        frac == IF dot = 0 THEN ""
                ELSE stripTrailingZeros(SubSeq(lexeme, dot + 1, Len(lexeme)))
    IN  IF frac = "" THEN stripLeadingZeros(int)
        ELSE stripLeadingZeros(int) \o "." \o frac

typeKeywords == { "int", "float", "double", "char", "void", "long", "short" }

assignmentOperators == { "=", "+=", "-=", "*=", "/=", "++", "--" }

BinaryExpression(left, operator, right) ==
    [type |-> "BinaryExpression", left |-> left, operator |-> operator,
     right |-> right]

\* this.method(): the methods of the parser call one another through this,
\* defined after them
RECURSIVE this(_, _, _)
RECURSIVE parseBlockLoop(_, _, _)
RECURSIVE parseArgumentsLoop(_, _, _)
RECURSIVE parseOrLoop(_, _)
RECURSIVE parseAndLoop(_, _)
RECURSIVE parseEqualityLoop(_, _)
RECURSIVE parseRelationalLoop(_, _)
RECURSIVE parseAdditiveLoop(_, _)
RECURSIVE parseMultiplicativeLoop(_, _)

parseInclude(T, p) ==
    LET includeToken == getCurrentToken(T, p + 1)
        delimiter    == getCurrentToken(T, p + 2)
        library      == getCurrentToken(T, p + 3)
    IN  IF valueIs(includeToken, "include")
        THEN IF valueIs(delimiter, "<") \/ valueIs(delimiter, "\"")
             THEN IF library # Null
                  THEN Result([type |-> "Include", library |-> library.value],
                              p + 5)
                  ELSE Result(Null, p + 3)
             ELSE Result(Null, p + 2)
        ELSE Result(Null, p + 1)

\* the parameter loop of parseFunction; returns the position after the loop
\* and the parameters
RECURSIVE parseParametersLoop(_, _, _)
parseParametersLoop(T, p, params) ==
    IF p < Len(T)
    THEN LET token == getCurrentToken(T, p)
         IN  IF valueIs(token, ")")
             THEN [position |-> p + 1, params |-> params]
             ELSE IF valueIs(token, ",")
             THEN parseParametersLoop(T, p + 1, params)
             ELSE IF token.type = "KEYWORD" /\ token.value \in typeKeywords
             THEN LET paramName == getCurrentToken(T, p + 1)
                  IN  IF paramName # Null /\ paramName.type = "IDENTIFIER"
                      THEN parseParametersLoop(T, p + 2,
                               Append(params, [type |-> token.value,
                                               name |-> paramName.value]))
                      ELSE parseParametersLoop(T, p + 1, params)
             ELSE parseParametersLoop(T, p + 1, params)
    ELSE [position |-> p, params |-> params]

parseFunction(T, p, returnType, name) ==
    LET ps        == parseParametersLoop(T, p + 1, <<>>)
        openBrace == getCurrentToken(T, ps.position)
        block     == IF valueIs(openBrace, "{")
                     THEN this("parseBlock", T, ps.position)
                     ELSE Result([type |-> "Block", body |-> <<>>],
                                 ps.position)
    IN  Result([type |-> "Function", returnType |-> returnType,
                name |-> name, parameters |-> ps.params,
                body |-> block.node.body],
               block.position)

parseVariable(T, p, varType, name) ==
    LET init == IF valueIs(getCurrentToken(T, p), "=")
                THEN this("parseExpression", T, p + 1)
                ELSE Result(Null, p)
    IN  Result([type |-> "Variable", dataType |-> varType, name |-> name,
                value |-> init.node],
               skipToken(T, init.position, ";"))

parseDeclarationOrFunction(T, p) ==
    LET typeToken == getCurrentToken(T, p)
        nameToken == getCurrentToken(T, p + 1)
        nextToken == getCurrentToken(T, p + 2)
    IN  IF typeToken = Null THEN Result(Null, p)
        ELSE IF nameToken # Null /\ nameToken.type = "IDENTIFIER"
        THEN IF valueIs(nextToken, "(")
             THEN parseFunction(T, p + 2, typeToken.value, nameToken.value)
             ELSE parseVariable(T, p + 2, typeToken.value, nameToken.value)
        ELSE Result(Null, p + 1)

parseBlockLoop(T, p, statements) ==
    IF p < Len(T)
    THEN IF valueIs(getCurrentToken(T, p), "}")
         THEN [position |-> p + 1, statements |-> statements]
         ELSE LET stmt == this("parseStatement", T, p)
              IN  parseBlockLoop(T, stmt.position,
                      IF stmt.node # Null THEN Append(statements, stmt.node)
                      ELSE statements)
    ELSE [position |-> p, statements |-> statements]

parseBlock(T, p) ==
    LET r == parseBlockLoop(T, p + 1, <<>>)
    IN  Result([type |-> "Block", body |-> r.statements], r.position)

parseIfStatement(T, p) ==
    LET condition     == this("parseExpression", T, skipToken(T, p + 1, "("))
        thenStatement == this("parseStatement", T,
                             skipToken(T, condition.position, ")"))
        elseStatement ==
            IF valueIs(getCurrentToken(T, thenStatement.position), "else")
            THEN this("parseStatement", T, thenStatement.position + 1)
            ELSE Result(Null, thenStatement.position)
    IN  Result([type |-> "IfStatement", condition |-> condition.node,
                then |-> thenStatement.node, else |-> elseStatement.node],
               elseStatement.position)

parseWhileStatement(T, p) ==
    LET condition == this("parseExpression", T, skipToken(T, p + 1, "("))
        body      == this("parseStatement", T,
                          skipToken(T, condition.position, ")"))
    IN  Result([type |-> "WhileLoop", condition |-> condition.node,
                body |-> body.node],
               body.position)

parseForStatement(T, p) ==
    LET p1        == skipToken(T, p + 1, "(")
        initToken == getCurrentToken(T, p1)
        init      == IF initToken # Null /\ initToken.type = "KEYWORD"
                     THEN this("parseDeclarationOrFunction", T, p1)
                     ELSE IF initToken # Null /\ initToken.type = "IDENTIFIER"
                     THEN this("parseAssignmentOrFunctionCall", T, p1)
                     ELSE Result(Null, p1)
        condition == this("parseExpression", T,
                          skipToken(T, init.position, ";"))
        update    == this("parseExpression", T,
                          skipToken(T, condition.position, ";"))
        body      == this("parseStatement", T,
                          skipToken(T, update.position, ")"))
    IN  Result([type |-> "ForLoop", init |-> init.node,
                condition |-> condition.node, update |-> update.node,
                body |-> body.node],
               body.position)

\* parseReturnStatement never parsing the returned expression
parseReturnStatement_ValueDropped(T, p) ==
    LET value == Result(Null, p + 1)
    IN  Result([type |-> "ReturnStatement", value |-> value.node],
               skipToken(T, value.position, ";"))

parseReturnStatement(T, p) ==
    LET nextToken == getCurrentToken(T, p + 1)
        value     == IF nextToken # Null /\ ~valueIs(nextToken, ";")
                     THEN this("parseExpression", T, p + 1)
                     ELSE Result(Null, p + 1)
    IN  Result([type |-> "ReturnStatement", value |-> value.node],
               skipToken(T, value.position, ";"))

\* the argument loop of parsePrintfStatement, parseScanfStatement and the
\* function-call branch of parseAssignmentOrFunctionCall
parseArgumentsLoop(T, p, args) ==
    IF p < Len(T)
    THEN LET token == getCurrentToken(T, p)
         IN  IF valueIs(token, ")")
             THEN [position |-> p + 1, args |-> args]
             ELSE IF valueIs(token, ",")
             THEN parseArgumentsLoop(T, p + 1, args)
             ELSE LET expr == this("parseExpression", T, p)
                  IN  parseArgumentsLoop(T, expr.position,
                          IF expr.node # Null THEN Append(args, expr.node)
                          ELSE args)
    ELSE [position |-> p, args |-> args]

parsePrintfStatement(T, p) ==
    LET r == parseArgumentsLoop(T, skipToken(T, p + 1, "("), <<>>)
    IN  Result([type |-> "PrintfStatement", arguments |-> r.args],
               skipToken(T, r.position, ";"))

parseScanfStatement(T, p) ==
    LET r == parseArgumentsLoop(T, skipToken(T, p + 1, "("), <<>>)
    IN  Result([type |-> "ScanfStatement", arguments |-> r.args],
               skipToken(T, r.position, ";"))

parseAssignmentOrFunctionCall(T, p) ==
    LET identifier == getCurrentToken(T, p)
        next       == getCurrentToken(T, p + 1)
    IN  IF identifier = Null THEN Result(Null, p)
        ELSE IF valueIs(next, "(")
        THEN LET r == parseArgumentsLoop(T, p + 2, <<>>)
             IN  Result([type |-> "FunctionCall", name |-> identifier.value,
                         arguments |-> r.args],
                        skipToken(T, r.position, ";"))
        ELSE IF \E op \in assignmentOperators : valueIs(next, op)
        THEN IF valueIs(next, "++") \/ valueIs(next, "--")
             THEN Result([type |-> "Assignment",
                          identifier |-> identifier.value,
                          operator |-> next.value, value |-> Null],
                         skipToken(T, p + 2, ";"))
             ELSE LET value == this("parseExpression", T, p + 2)
                  IN  Result([type |-> "Assignment",
                              identifier |-> identifier.value,
                              operator |-> next.value, value |-> value.node],
                             skipToken(T, value.position, ";"))
        ELSE this("parseExpression", T, (p + 1) - 1)

parseExpression(T, p) == this("parseOrExpression", T, p)

\* each *Loop is the while (true) loop of its level: left is the result so
\* far, with the position after it
parseOrLoop(T, left) ==
    LET token == getCurrentToken(T, left.position)
    IN  IF ~valueIs(token, "||") THEN left
        ELSE LET right == this("parseAndExpression", T, left.position + 1)
             IN  parseOrLoop(T,
                     Result(BinaryExpression(left.node, token.value,
                                             right.node), right.position))

parseOrExpression(T, p) == parseOrLoop(T, this("parseAndExpression", T, p))

parseAndLoop(T, left) ==
    LET token == getCurrentToken(T, left.position)
    IN  IF ~valueIs(token, "&&") THEN left
        ELSE LET right == this("parseEqualityExpression", T, left.position + 1)
             IN  parseAndLoop(T,
                     Result(BinaryExpression(left.node, token.value,
                                             right.node), right.position))

parseAndExpression(T, p) ==
    parseAndLoop(T, this("parseEqualityExpression", T, p))

parseEqualityLoop(T, left) ==
    LET token == getCurrentToken(T, left.position)
    IN  IF ~(\E op \in {"==", "!="} : valueIs(token, op)) THEN left
        ELSE LET right == this("parseRelationalExpression", T,
                               left.position + 1)
             IN  parseEqualityLoop(T,
                     Result(BinaryExpression(left.node, token.value,
                                             right.node), right.position))

parseEqualityExpression(T, p) ==
    parseEqualityLoop(T, this("parseRelationalExpression", T, p))

parseRelationalLoop(T, left) ==
    LET token == getCurrentToken(T, left.position)
    IN  IF ~(\E op \in {"<", ">", "<=", ">="} : valueIs(token, op)) THEN left
        ELSE LET right == this("parseAdditiveExpression", T, left.position + 1)
             IN  parseRelationalLoop(T,
                     Result(BinaryExpression(left.node, token.value,
                                             right.node), right.position))

parseRelationalExpression(T, p) ==
    parseRelationalLoop(T, this("parseAdditiveExpression", T, p))

\* parseAdditiveLoop taking a whole sum as the right operand
parseAdditiveLoop_RightOperandSum(T, left) ==
    LET token == getCurrentToken(T, left.position)
    IN  IF ~(\E op \in {"+", "-"} : valueIs(token, op)) THEN left
        ELSE LET right == this("parseAdditiveExpression", T,
                               left.position + 1)
             IN  parseAdditiveLoop(T,
                     Result(BinaryExpression(left.node, token.value,
                                             right.node), right.position))

parseAdditiveLoop(T, left) ==
    LET token == getCurrentToken(T, left.position)
    IN  IF ~(\E op \in {"+", "-"} : valueIs(token, op)) THEN left
        ELSE LET right == this("parseMultiplicativeExpression", T,
                               left.position + 1)
             IN  parseAdditiveLoop(T,
                     Result(BinaryExpression(left.node, token.value,
                                             right.node), right.position))

parseAdditiveExpression(T, p) ==
    parseAdditiveLoop(T, this("parseMultiplicativeExpression", T, p))

parseMultiplicativeLoop(T, left) ==
    LET token == getCurrentToken(T, left.position)
    IN  IF ~(\E op \in {"*", "/", "%"} : valueIs(token, op)) THEN left
        ELSE LET right == this("parsePrimaryExpression", T, left.position + 1)
             IN  parseMultiplicativeLoop(T,
                     Result(BinaryExpression(left.node, token.value,
                                             right.node), right.position))

parseMultiplicativeExpression(T, p) ==
    parseMultiplicativeLoop(T, this("parsePrimaryExpression", T, p))

parsePrimaryExpression(T, p) ==
    LET token == getCurrentToken(T, p)
    IN  IF token = Null THEN Result(Null, p)
        ELSE IF token.type = "NUMBER"
        THEN Result([type |-> "Literal", value |-> parseFloat(token.value),
                     dataType |-> IF includes(token.value, ".")
                                  THEN "float" ELSE "int"],
                    p + 1)
        ELSE IF token.type = "STRING"
        THEN Result([type |-> "Literal", value |-> token.value,
                     dataType |-> "string"],
                    p + 1)
        ELSE IF token.type = "IDENTIFIER"
        THEN IF valueIs(getCurrentToken(T, p + 1), "(")
             THEN this("parseAssignmentOrFunctionCall", T, (p + 1) - 1)
             ELSE Result([type |-> "Identifier", name |-> token.value], p + 1)
        ELSE IF valueIs(token, "(")
        THEN LET expr == this("parseExpression", T, p + 1)
             IN  Result(expr.node, skipToken(T, expr.position, ")"))
        ELSE IF valueIs(token, "&")
        THEN LET expr == this("parsePrimaryExpression", T, p + 1)
             IN  Result([type |-> "UnaryExpression", operator |-> "&",
                         operand |-> expr.node],
                        expr.position)
        ELSE Result(Null, p + 1)

\* parseStatement without the final this.position++ before return null
parseStatement_StrayNotSkipped(T, p) ==
    LET token == getCurrentToken(T, p)
    IN  IF token = Null THEN Result(Null, p)
        ELSE IF token.type = "NEWLINE" THEN Result(Null, p + 1)
        ELSE IF token.type = "DELIMITER" /\ token.value = "#"
        THEN this("parseInclude", T, p)
        ELSE IF token.type = "KEYWORD"
        THEN CASE token.value = "if"     -> this("parseIfStatement", T, p)
               [] token.value = "while"  -> this("parseWhileStatement", T, p)
               [] token.value = "for"    -> this("parseForStatement", T, p)
               [] token.value = "return" -> this("parseReturnStatement", T, p)
               [] token.value = "printf" -> this("parsePrintfStatement", T, p)
               [] token.value = "scanf"  -> this("parseScanfStatement", T, p)
               [] token.value \in typeKeywords ->
                      this("parseDeclarationOrFunction", T, p)
               [] OTHER -> Result(Null, p + 1)
        ELSE IF token.type = "IDENTIFIER"
        THEN this("parseAssignmentOrFunctionCall", T, p)
        ELSE IF token.type = "DELIMITER" /\ token.value = "{"
        THEN this("parseBlock", T, p)
        ELSE Result(Null, p)

parseStatement(T, p) ==
    LET token == getCurrentToken(T, p)
    IN  IF token = Null THEN Result(Null, p)
        ELSE IF token.type = "NEWLINE" THEN Result(Null, p + 1)
        ELSE IF token.type = "DELIMITER" /\ token.value = "#"
        THEN this("parseInclude", T, p)
        ELSE IF token.type = "KEYWORD"
        THEN CASE token.value = "if"     -> this("parseIfStatement", T, p)
               [] token.value = "while"  -> this("parseWhileStatement", T, p)
               [] token.value = "for"    -> this("parseForStatement", T, p)
               [] token.value = "return" -> this("parseReturnStatement", T, p)
               [] token.value = "printf" -> this("parsePrintfStatement", T, p)
               [] token.value = "scanf"  -> this("parseScanfStatement", T, p)
               [] token.value \in typeKeywords ->
                      this("parseDeclarationOrFunction", T, p)
               [] OTHER -> Result(Null, p + 1)
        ELSE IF token.type = "IDENTIFIER"
        THEN this("parseAssignmentOrFunctionCall", T, p)
        ELSE IF token.type = "DELIMITER" /\ token.value = "{"
        THEN this("parseBlock", T, p)
        ELSE Result(Null, p + 1)

\* this.method() at position p
this(method, T, p) ==
    CASE method = "parseStatement" ->
             parseStatement(T, p)
      [] method = "parseInclude" ->
             parseInclude(T, p)
      [] method = "parseDeclarationOrFunction" ->
             parseDeclarationOrFunction(T, p)
      [] method = "parseBlock" ->
             parseBlock(T, p)
      [] method = "parseIfStatement" ->
             parseIfStatement(T, p)
      [] method = "parseWhileStatement" ->
             parseWhileStatement(T, p)
      [] method = "parseForStatement" ->
             parseForStatement(T, p)
      [] method = "parseReturnStatement" ->
             parseReturnStatement(T, p)
      [] method = "parsePrintfStatement" ->
             parsePrintfStatement(T, p)
      [] method = "parseScanfStatement" ->
             parseScanfStatement(T, p)
      [] method = "parseAssignmentOrFunctionCall" ->
             parseAssignmentOrFunctionCall(T, p)
      [] method = "parseExpression" ->
             parseExpression(T, p)
      [] method = "parseOrExpression" ->
             parseOrExpression(T, p)
      [] method = "parseAndExpression" ->
             parseAndExpression(T, p)
      [] method = "parseEqualityExpression" ->
             parseEqualityExpression(T, p)
      [] method = "parseRelationalExpression" ->
             parseRelationalExpression(T, p)
      [] method = "parseAdditiveExpression" ->
             parseAdditiveExpression(T, p)
      [] method = "parseMultiplicativeExpression" ->
             parseMultiplicativeExpression(T, p)
      [] method = "parsePrimaryExpression" ->
             parsePrimaryExpression(T, p)

\* parseIteration storing the new position only with a node
parseIteration_PositionWithNode(P) ==
    LET r == this("parseStatement", P.tokens, P.position)
    IN  IF r.node # Null
        THEN [P EXCEPT !.position = r.position,
                       !.ast.body = Append(@, r.node)]
        ELSE P

\* one iteration of the while loop of parse
parseIteration(P) ==
    LET r == this("parseStatement", P.tokens, P.position)
    IN  [P EXCEPT !.position = r.position,
                  !.ast.body = IF r.node # Null THEN Append(@, r.node) ELSE @]

\* the condition of the while loop of parse
parseContinues(P) ==
    P.position < Len(P.tokens)
    /\ getCurrentToken(P.tokens, P.position).type # "EOF"

\* parse() run to completion; returns this.ast
RECURSIVE parseLoop(_)
parseLoop(P) == IF parseContinues(P) THEN parseLoop(parseIteration(P)) ELSE P

parse(T) == parseLoop(SyntaxAnalyzer(T)).ast

(***************************************************************************)
(* CodeGenerator                                                           *)
(*                                                                         *)
(* A method of the generator returns a string, or throws a TypeError when  *)
(* it calls a string method on a value that is not a string.  A call that  *)
(* throws is modelled by the result Thrown, which is not the text of any   *)
(* statement; Cat is the += of the source with the exception carried       *)
(* through it.                                                             *)
(***************************************************************************)
Thrown == "<TypeError>"

Cat(a, b) == IF a = Thrown \/ b = Thrown THEN Thrown ELSE a \o b

RECURSIVE CatAll(_)
CatAll(parts) ==
    IF parts = <<>> THEN "" ELSE Cat(Head(parts), CatAll(Tail(parts)))

\* Array.isArray(v): TLC prints a sequence, and nothing else, with a
\* leading "<"
isArray(v) == Head(ToString(v)) = "<"

\* String.prototype.trim
RECURSIVE trimStart(_)
trimStart(s) ==
    IF Len(s) > 0 /\ Head(s) \in WhitespaceChars THEN trimStart(Tail(s))
    ELSE s

RECURSIVE trimEnd(_)
trimEnd(s) ==
    IF Len(s) > 0 /\ SubSeq(s, Len(s), Len(s)) \in WhitespaceChars
    THEN trimEnd(SubSeq(s, 1, Len(s) - 1))
    ELSE s

trim(s) == trimEnd(trimStart(s))

\* s.replace(/;\s*$/, "")
removeTrailingSemicolon(s) ==
    LET t == trimEnd(s)
    IN  IF Len(t) > 0 /\ SubSeq(t, Len(t), Len(t)) = ";"
        THEN SubSeq(t, 1, Len(t) - 1)
        ELSE s

\* s.replace(/pattern/g, replacement) for a pattern that is a literal text
RECURSIVE replaceAll(_, _, _)
replaceAll(s, pattern, replacement) ==
    IF Len(s) < Len(pattern) THEN s
    ELSE IF SubSeq(s, 1, Len(pattern)) = pattern
    THEN replacement
         \o replaceAll(SubSeq(s, Len(pattern) + 1, Len(s)), pattern,
                       replacement)
    ELSE Head(s) \o replaceAll(Tail(s), pattern, replacement)

\* Array.prototype.join
RECURSIVE join(_, _)
join(texts, separator) ==
    IF texts = <<>> THEN ""
    ELSE IF Len(texts) = 1 THEN texts[1]
    ELSE texts[1] \o separator \o join(Tail(texts), separator)

\* the truthiness of node.value, for a node that is not null: a node without
\* the field gives undefined; a Literal holds a string, or a number in the
\* representation of parseFloat; the other nodes hold a node or null
valueTruthy(node) ==
    IF "value" \notin DOMAIN node THEN FALSE
    ELSE IF node.type = "Literal"
    THEN IF node.dataType = "string" THEN node.value # ""
         ELSE node.value # "0"
    ELSE node.value # Null

\* node.value is a string
valueIsString(node) ==
    "value" \in DOMAIN node /\ node.type = "Literal"
    /\ node.dataType = "string"

mapJavaType(cType) ==
    CASE cType = "int"    -> "int"
      [] cType = "float"  -> "float"
      [] cType = "double" -> "double"
      [] cType = "char"   -> "char"
      [] cType = "void"   -> "void"
      [] cType = "long"   -> "long"
      [] cType = "short"  -> "short"
      [] cType = "bool"   -> "boolean"
      [] OTHER            -> "Object"

getDefaultValue(javaType) ==
    CASE javaType = "int"     -> "0"
      [] javaType = "float"   -> "0.0f"
      [] javaType = "double"  -> "0.0"
      [] javaType = "char"    -> "'\\0'"
      [] javaType = "boolean" -> "false"
      [] javaType = "long"    -> "0L"
      [] javaType = "short"   -> "0"
      [] OTHER                -> "null"

\* getPythonDefaultValue without the entry of char
getPythonDefaultValue_NoChar(cType) ==
    CASE cType = "int"    -> "0"
      [] cType = "float"  -> "0.0"
      [] cType = "double" -> "0.0"
      [] cType = "void"   -> "None"
      [] cType = "long"   -> "0"
      [] cType = "short"  -> "0"
      [] OTHER            -> "None"

getPythonDefaultValue(cType) ==
    CASE cType = "int"    -> "0"
      [] cType = "float"  -> "0.0"
      [] cType = "double" -> "0.0"
      [] cType = "char"   -> "''"
      [] cType = "void"   -> "None"
      [] cType = "long"   -> "0"
      [] cType = "short"  -> "0"
      [] OTHER            -> "None"

\* String(expr.value) of a numeric Literal: the decimal text of the number
String(number) == number

RECURSIVE generateJavaExpression(_)
RECURSIVE generateJavaExpressions(_)
generateJavaExpression(expr) ==
    IF expr = Null THEN ""
    ELSE CASE expr.type = "Literal" ->
                IF expr.dataType = "string" THEN "\"" \o expr.value \o "\""
                ELSE String(expr.value)
           [] expr.type = "Identifier" -> expr.name
           [] expr.type = "BinaryExpression" ->
                generateJavaExpression(expr.left) \o " " \o expr.operator
                \o " " \o generateJavaExpression(expr.right)
           [] expr.type = "UnaryExpression" ->
                IF expr.operator = "&"
                THEN generateJavaExpression(expr.operand)
                ELSE expr.operator \o generateJavaExpression(expr.operand)
           [] expr.type = "FunctionCall" ->
                expr.name \o "("
                \o join(generateJavaExpressions(expr.arguments), ", ") \o ")"
           [] OTHER -> ""

\* args.map(arg => this.generateJavaExpression(arg))
generateJavaExpressions(args) ==
    [i \in 1..Len(args) |-> generateJavaExpression(args[i])]

RECURSIVE generatePythonExpression(_)
RECURSIVE generatePythonExpressions(_)
generatePythonExpression(expr) ==
    IF expr = Null THEN ""
    ELSE CASE expr.type = "Literal" ->
                IF expr.dataType = "string" THEN "\"" \o expr.value \o "\""
                ELSE String(expr.value)
           [] expr.type = "Identifier" -> expr.name
           [] expr.type = "BinaryExpression" ->
                generatePythonExpression(expr.left) \o " "
                \o (IF expr.operator = "&&" THEN "and"
                    ELSE IF expr.operator = "||" THEN "or"
                    ELSE expr.operator)
                \o " " \o generatePythonExpression(expr.right)
           [] expr.type = "UnaryExpression" ->
                IF expr.operator = "&"
                THEN generatePythonExpression(expr.operand)
                ELSE expr.operator \o generatePythonExpression(expr.operand)
           [] expr.type = "FunctionCall" ->
                expr.name \o "("
                \o join(generatePythonExpressions(expr.arguments), ", ")
                \o ")"
           [] OTHER -> ""

\* args.map(arg => this.generatePythonExpression(arg))
generatePythonExpressions(args) ==
    [i \in 1..Len(args) |-> generatePythonExpression(args[i])]

generateJavaPrintf(node, indent) ==
    IF node.arguments = <<>> THEN indent \o "System.out.println();\n"
    ELSE LET formatStr == generateJavaExpression(node.arguments[1])
             args == generateJavaExpressions(Tail(node.arguments))
             cleanFormat == replaceAll(replaceAll(formatStr, "\"", ""),
                                       "\\n", "")
         IN  IF Len(args) > 0
             THEN indent \o "System.out.printf(" \o formatStr \o ", "
                  \o join(args, ", ") \o ");\n"
             ELSE IF includes(cleanFormat, "%")
             THEN indent \o "System.out.printf(" \o formatStr \o ");\n"
             ELSE indent \o "System.out.println(" \o formatStr \o ");\n"

generateJavaScanf(node, indent) ==
    IF Len(node.arguments) < 2 THEN indent \o "// Scanner input needed\n"
    ELSE LET variable == generateJavaExpression(node.arguments[2])
             formatStr == node.arguments[1]
         IN  IF valueTruthy(formatStr)
             THEN IF ~valueIsString(formatStr) THEN Thrown
                  ELSE IF includes(formatStr.value, "%d")
                  THEN indent \o variable \o " = scanner.nextInt();\n"
                  ELSE IF includes(formatStr.value, "%f")
                  THEN indent \o variable \o " = scanner.nextFloat();\n"
                  ELSE IF includes(formatStr.value, "%s")
                  THEN indent \o variable \o " = scanner.next();\n"
                  ELSE indent \o variable \o " = scanner.nextInt();\n"
             ELSE indent \o variable \o " = scanner.nextInt();\n"

generatePythonPrintf(node, indent) ==
    IF node.arguments = <<>> THEN indent \o "print()\n"
    ELSE LET formatStr == node.arguments[1]
             args == Tail(node.arguments)
         IN  IF Len(args) > 0
             THEN \* pythonFormat = formatStr.value || formatStr, then
                  \* pythonFormat.replace(...)
                  IF ~(valueTruthy(formatStr) /\ valueIsString(formatStr))
                  THEN Thrown
                  ELSE indent \o "print(\""
                       \o replaceAll(replaceAll(replaceAll(replaceAll(
                              formatStr.value, "%d", "{}"), "%s", "{}"),
                              "%f", "{}"), "%c", "{}")
                       \o "\".format("
                       \o join(generatePythonExpressions(args), ", ")
                       \o "))\n"
             ELSE indent \o "print(" \o generatePythonExpression(formatStr)
                  \o ")\n"

generatePythonScanf(node, indent) ==
    IF Len(node.arguments) < 2 THEN indent \o "# Input needed\n"
    ELSE LET variable == generatePythonExpression(node.arguments[2])
             formatStr == node.arguments[1]
         IN  IF valueTruthy(formatStr)
             THEN IF ~valueIsString(formatStr) THEN Thrown
                  ELSE IF includes(formatStr.value, "%d")
                  THEN indent \o variable \o " = int(input())\n"
                  ELSE IF includes(formatStr.value, "%f")
                  THEN indent \o variable \o " = float(input())\n"
                  ELSE IF includes(formatStr.value, "%s")
                  THEN indent \o variable \o " = input()\n"
                  ELSE indent \o variable \o " = int(input())\n"
             ELSE indent \o variable \o " = int(input())\n"

RECURSIVE generateJavaStatement(_, _)
RECURSIVE generateJavaStatements(_, _)
RECURSIVE generateJavaIfStatement(_, _)
RECURSIVE generateJavaForLoop(_, _)

\* the body of a while, for or if branch: a Block gives its statements, any
\* other node the statement itself, null nothing
generateJavaBody(body, indent) ==
    IF body # Null /\ body.type = "Block"
    THEN generateJavaStatements(body.body, indent \o "    ")
    ELSE IF body # Null
    THEN generateJavaStatement(body, indent \o "    ")
    ELSE ""

generateJavaStatements(statements, indent) ==
    IF statements = <<>> THEN ""
    ELSE Cat(generateJavaStatement(Head(statements), indent),
             generateJavaStatements(Tail(statements), indent))

generateJavaStatement(node, indent) ==
    IF node = Null THEN ""
    ELSE CASE node.type = "Variable" ->
                LET javaType == mapJavaType(node.dataType)
                    value == IF node.value # Null
                             THEN generateJavaExpression(node.value)
                             ELSE getDefaultValue(javaType)
                IN  indent \o javaType \o " " \o node.name \o " = " \o value
                    \o ";\n"
           [] node.type = "Assignment" ->
                IF node.operator = "++" \/ node.operator = "--"
                THEN indent \o node.identifier \o node.operator \o ";\n"
                ELSE indent \o node.identifier \o " " \o node.operator \o " "
                     \o generateJavaExpression(node.value) \o ";\n"
           [] node.type = "PrintfStatement" -> generateJavaPrintf(node, indent)
           [] node.type = "ScanfStatement" -> generateJavaScanf(node, indent)
           [] node.type = "FunctionCall" ->
                indent \o node.name \o "("
                \o join(generateJavaExpressions(node.arguments), ", ")
                \o ");\n"
           [] node.type = "IfStatement" ->
                generateJavaIfStatement(node, indent)
           [] node.type = "WhileLoop" ->
                CatAll(<< indent \o "while ("
                          \o generateJavaExpression(node.condition)
                          \o ") {\n",
                          generateJavaBody(node.body, indent),
                          indent \o "}\n" >>)
           [] node.type = "ForLoop" -> generateJavaForLoop(node, indent)
           [] node.type = "ReturnStatement" ->
                indent \o "return "
                \o (IF node.value # Null
                    THEN generateJavaExpression(node.value) ELSE "")
                \o ";\n"
           [] node.type = "Block" ->
                generateJavaStatements(node.body, indent)
           [] OTHER -> ""

generateJavaIfStatement(node, indent) ==
    CatAll(<< indent \o "if (" \o generateJavaExpression(node.condition)
              \o ") {\n",
              generateJavaBody(node.then, indent),
              indent \o "}",
              IF node.else # Null
              THEN CatAll(<< " else {\n",
                             IF node.else.type = "Block"
                             THEN generateJavaStatements(node.else.body,
                                                         indent \o "    ")
                             ELSE IF node.else.type = "IfStatement"
                             THEN CatAll(<< indent \o "    ",
                                     trim(generateJavaIfStatement(node.else,
                                                                  "")),
                                     "\n" >>)
                             ELSE generateJavaStatement(node.else,
                                                        indent \o "    "),
                             indent \o "}" >>)
              ELSE "",
              "\n" >>)

generateJavaForLoop(node, indent) ==
    LET initCode == IF node.init # Null
                    THEN trim(removeTrailingSemicolon(
                             generateJavaStatement(node.init, "")))
                    ELSE ""
        condCode == IF node.condition # Null
                    THEN generateJavaExpression(node.condition) ELSE ""
        updateCode == IF node.update # Null
                      THEN generateJavaExpression(node.update) ELSE ""
    IN  CatAll(<< indent \o "for (", initCode,
                  "; " \o condCode \o "; " \o updateCode \o ") {\n",
                  generateJavaBody(node.body, indent),
                  indent \o "}\n" >>)

\* the loop of generateJava over ast.body: the class content and hasMain
\* after the nodes of body
RECURSIVE generateJavaNodes(_)
generateJavaNodes(body) ==
    IF body = <<>> THEN [classContent |-> "", hasMain |-> FALSE]
    ELSE LET node == Head(body)
             rest == generateJavaNodes(Tail(body))
         IN  IF node.type = "Include" THEN rest
             ELSE IF node.type = "Function"
             THEN IF node.name = "main"
                  THEN [classContent |->
                           CatAll(<<
                             "    public static void main(String[] args) {\n",
                             "        Scanner scanner = new Scanner(System.in);\n",
                             generateJavaStatements(node.body, "        "),
                             "        scanner.close();\n",
                             "    }\n\n",
                             rest.classContent >>),
                        hasMain |-> TRUE]
                  ELSE [classContent |->
                           CatAll(<<
                             "    public static "
                             \o mapJavaType(node.returnType) \o " "
                             \o node.name \o "("
                             \o join([i \in 1..Len(node.parameters) |->
                                         mapJavaType(node.parameters[i].type)
                                         \o " " \o node.parameters[i].name],
                                     ", ")
                             \o ") {\n",
                             generateJavaStatements(node.body, "        "),
                             "    }\n\n",
                             rest.classContent >>),
                        hasMain |-> rest.hasMain]
             ELSE [classContent |->
                      Cat(generateJavaStatement(node, "    "),
                          rest.classContent),
                   hasMain |-> rest.hasMain]

generateJava(ast) ==
    IF ~("body" \in DOMAIN ast /\ isArray(ast.body))
    THEN "// Error: Invalid AST structure"
    ELSE LET r == generateJavaNodes(ast.body)
         IN  IF r.hasMain
             THEN CatAll(<< "import java.util.Scanner;" \o "\n\n",
                            "public class Main {\n", r.classContent, "}" >>)
             ELSE r.classContent

RECURSIVE generatePythonStatement(_, _)
RECURSIVE generatePythonStatements(_, _)
RECURSIVE generatePythonStatementsLoop(_, _)
RECURSIVE generatePythonIfStatement(_, _)
RECURSIVE generatePythonForLoop(_, _)

\* the body of a while, for or if branch
generatePythonBody(body, indent) ==
    IF body # Null /\ body.type = "Block"
    THEN generatePythonStatements(body.body, indent \o "    ")
    ELSE IF body # Null
    THEN generatePythonStatement(body, indent \o "    ")
    ELSE ""

\* the loop of generatePythonStatements: the code of the statements whose
\* text is not blank
generatePythonStatementsLoop(statements, indent) ==
    IF statements = <<>> THEN ""
    ELSE LET stmtCode == generatePythonStatement(Head(statements), indent)
         IN  IF trim(stmtCode) # ""
             THEN Cat(stmtCode,
                      generatePythonStatementsLoop(Tail(statements), indent))
             ELSE generatePythonStatementsLoop(Tail(statements), indent)

generatePythonStatements(statements, indent) ==
    LET code == generatePythonStatementsLoop(statements, indent)
        hasContent == \E i \in 1..Len(statements) :
                          trim(generatePythonStatement(statements[i], indent))
                              # ""
    IN  IF ~hasContent THEN Cat(code, indent \o "pass\n") ELSE code

generatePythonStatement(node, indent) ==
    IF node = Null THEN ""
    ELSE CASE node.type = "Variable" ->
                indent \o node.name \o " = "
                \o (IF node.value # Null
                    THEN generatePythonExpression(node.value)
                    ELSE getPythonDefaultValue(node.dataType))
                \o "\n"
           [] node.type = "Assignment" ->
                IF node.operator = "++"
                THEN indent \o node.identifier \o " += 1\n"
                ELSE IF node.operator = "--"
                THEN indent \o node.identifier \o " -= 1\n"
                ELSE indent \o node.identifier \o " " \o node.operator \o " "
                     \o generatePythonExpression(node.value) \o "\n"
           [] node.type = "PrintfStatement" ->
                generatePythonPrintf(node, indent)
           [] node.type = "ScanfStatement" ->
                generatePythonScanf(node, indent)
           [] node.type = "FunctionCall" ->
                indent \o node.name \o "("
                \o join(generatePythonExpressions(node.arguments), ", ")
                \o ")\n"
           [] node.type = "IfStatement" ->
                generatePythonIfStatement(node, indent)
           [] node.type = "WhileLoop" ->
                Cat(indent \o "while "
                    \o generatePythonExpression(node.condition) \o ":\n",
                    generatePythonBody(node.body, indent))
           [] node.type = "ForLoop" -> generatePythonForLoop(node, indent)
           [] node.type = "ReturnStatement" ->
                indent \o "return "
                \o (IF node.value # Null
                    THEN generatePythonExpression(node.value) ELSE "")
                \o "\n"
           [] node.type = "Block" ->
                generatePythonStatements(node.body, indent)
           [] OTHER -> ""

generatePythonIfStatement(node, indent) ==
    CatAll(<< indent \o "if " \o generatePythonExpression(node.condition)
              \o ":\n",
              generatePythonBody(node.then, indent),
              IF node.else = Null THEN ""
              ELSE IF node.else.type = "IfStatement"
              THEN CatAll(<< indent \o "el",
                             trim(generatePythonIfStatement(node.else, "")),
                             "\n" >>)
              ELSE Cat(indent \o "else:\n",
                       IF node.else.type = "Block"
                       THEN generatePythonStatements(node.else.body,
                                                     indent \o "    ")
                       ELSE generatePythonStatement(node.else,
                                                    indent \o "    ")) >>)

\* generatePythonForLoop with the bound of <= left as it is
generatePythonForLoop_BoundNotShifted(node, indent) ==
    IF node.init # Null /\ node.condition # Null /\ node.update # Null
    THEN LET initVar == IF "name" \in DOMAIN node.init THEN node.init.name
                        ELSE IF "identifier" \in DOMAIN node.init
                        THEN node.init.identifier
                        ELSE "undefined"
             startVal == IF valueTruthy(node.init)
                         THEN generatePythonExpression(node.init.value)
                         ELSE "0"
             endVal == IF node.condition.type = "BinaryExpression"
                          /\ node.condition.operator = "<"
                       THEN generatePythonExpression(node.condition.right)
                       ELSE IF node.condition.type = "BinaryExpression"
                               /\ node.condition.operator = "<="
                       THEN generatePythonExpression(node.condition.right)
                       ELSE "10"
         IN  Cat(indent \o "for " \o initVar \o " in range(" \o startVal
                 \o ", " \o endVal \o "):\n",
                 generatePythonBody(node.body, indent))
    ELSE indent \o "# For loop conversion needed\n"

generatePythonForLoop(node, indent) ==
    IF node.init # Null /\ node.condition # Null /\ node.update # Null
    THEN LET initVar == IF "name" \in DOMAIN node.init THEN node.init.name
                        ELSE IF "identifier" \in DOMAIN node.init
                        THEN node.init.identifier
                        ELSE "undefined"
             startVal == IF valueTruthy(node.init)
                         THEN generatePythonExpression(node.init.value)
                         ELSE "0"
             endVal == IF node.condition.type = "BinaryExpression"
                          /\ node.condition.operator = "<"
                       THEN generatePythonExpression(node.condition.right)
                       ELSE IF node.condition.type = "BinaryExpression"
                               /\ node.condition.operator = "<="
                       THEN generatePythonExpression(node.condition.right)
                            \o " + 1"
                       ELSE "10"
         IN  Cat(indent \o "for " \o initVar \o " in range(" \o startVal
                 \o ", " \o endVal \o "):\n",
                 generatePythonBody(node.body, indent))
    ELSE indent \o "# For loop conversion needed\n"

\* the loop of generatePython over ast.body: the code and hasMain after the
\* nodes of body
RECURSIVE generatePythonNodes(_)
generatePythonNodes(body) ==
    IF body = <<>> THEN [pythonCode |-> "", hasMain |-> FALSE]
    ELSE LET node == Head(body)
             rest == generatePythonNodes(Tail(body))
         IN  IF node.type = "Include" THEN rest
             ELSE IF node.type = "Function"
             THEN IF node.name = "main"
                  THEN [pythonCode |->
                           CatAll(<< "def main():\n",
                                     generatePythonStatements(node.body,
                                                              "    "),
                                     "\n", rest.pythonCode >>),
                        hasMain |-> TRUE]
                  ELSE [pythonCode |->
                           CatAll(<< "def " \o node.name \o "("
                                     \o join([i \in 1..Len(node.parameters)
                                                |-> node.parameters[i].name],
                                             ", ")
                                     \o "):\n",
                                     generatePythonStatements(node.body,
                                                              "    "),
                                     "\n", rest.pythonCode >>),
                        hasMain |-> rest.hasMain]
             ELSE [pythonCode |->
                      Cat(generatePythonStatement(node, ""), rest.pythonCode),
                   hasMain |-> rest.hasMain]

\* generatePython returning the diagnostic of generateJava
generatePython_JavaDiagnostic(ast) ==
    IF ~("body" \in DOMAIN ast /\ isArray(ast.body))
    THEN "// Error: Invalid AST structure"
    ELSE LET r == generatePythonNodes(ast.body)
         IN  IF r.hasMain
             THEN Cat(r.pythonCode,
                      "if __name__ == \"__main__\":\n    main()\n")
             ELSE r.pythonCode

generatePython(ast) ==
    IF ~("body" \in DOMAIN ast /\ isArray(ast.body))
    THEN "# Error: Invalid AST structure"
    ELSE LET r == generatePythonNodes(ast.body)
         IN  IF r.hasMain
             THEN Cat(r.pythonCode,
                      "if __name__ == \"__main__\":\n    main()\n")
             ELSE r.pythonCode

(***************************************************************************)
(* Inputs                                                                  *)
(***************************************************************************)
\* bounds of the enumerated inputs
MaxSourceLen == 3

MaxTokens == 3

MaxBody == 1

SourceAlphabet == { "a", "1", ".", " ", "\n", "@", "=", "/", "*", "\"", "\\" }

RECURSIVE TextsOfLength(_)
TextsOfLength(n) ==
    IF n = 0 THEN { "" }
    ELSE { s \o c : s \in TextsOfLength(n - 1), c \in SourceAlphabet }

ShortSources == UNION { TextsOfLength(n) : n \in 0..MaxSourceLen }

\* programs of the C subset
AddSource == "int add(int a, int b) { return a + b; }"

SimpleStatements == { "x = 1", "f()", "return x", "x" }

DanglingElseSource(s1, s2) ==
    "if (a) if (b) " \o s1 \o "; else " \o s2 \o ";"

DanglingElseSources ==
    { DanglingElseSource(s1, s2) : s1 \in SimpleStatements,
                                   s2 \in SimpleStatements }

MainBodies == { "", "return 0;", "int x; x = 1;" }

MainSource(T, S) == T \o " main() { " \o S \o " }"

MainSources == { MainSource(T, S) : T \in typeKeywords, S \in MainBodies }

FunctionSource == "int f() { return 1; }"

IncludeSources ==
    { "#include <stdio.h>\n" \o FunctionSource,
      "#include \"stdio.h\"\n" \o FunctionSource,
      FunctionSource }

Initializers == { "0", "1", "y", "2.50", "'a'" }

DeclarationSources ==
    { T \o " x;" : T \in typeKeywords }
    \cup { T \o " x = " \o e \o ";" : T \in typeKeywords, e \in Initializers }

InputOutputSources ==
    { "printf(\"%d\\n\", x);", "printf(\"hi\");", "printf();",
      "printf(x, y);", "printf(\"\", x);", "printf(1, x);",
      "scanf(\"%d\", &x);", "scanf(\"%f\", &x);", "scanf(x, &y);",
      "scanf(5, &x);", "scanf(\"\", &x);", "scanf(0, &x);" }

StraySources == { "x = 1 @ ;", "x @= 1;", "a@b", "f(@)", "\"a@b\" @ c" }

\* for loops
ForSource(init, condition, update, body) ==
    "for (" \o init \o "; " \o condition \o "; " \o update \o ") " \o body

ForBodies == { "{ }", "{ printf(\"%d\", i); }", "x = 1;" }

CountingSources ==
    { ForSource("i = 0", c, "i++", b) : c \in { "i < 5", "i <= 5" },
                                         b \in ForBodies }

\* loops that are not a count from a start up to a bound: the condition is
\* not a < or <= comparison, or the initializer sets no loop variable
UnrepresentableSources ==
    { ForSource("i = 0", c, "i++", "{ }") : c \in { "i != n", "i > 0", "i" } }
    \cup { ForSource(init, "i < 5", "i++", "{ }") :
              init \in { "", "f()", "j" } }

\* expressions over identifiers, integer literals, binary operators and
\* parentheses, each as the right side of an assignment statement
ExpressionSources ==
    { "x = " \o e \o ";" :
          e \in { "a + b * c", "a - b - c", "(a + b) * c", "a - (b - c)",
                  "(a + 1) < b", "a" } }

\* statements that take the dispatch paths of parseStatement, among them
\* the step-back of the identifier path and the re-entry into function-call
\* parsing from a primary expression, and compound statements with a block,
\* an empty block, an expression statement or nothing as the body
DispatchSources ==
    { "x + 1;", "x = f(1);", "f(g(x));", "x + f() { y", "while (x) x;",
      "{ x }", "x++;", "# x", "else x", "return f(", "scanf(x", "int x = f(y",
      "while (x) { }", "while (x) { y = 1; }", "while (x)", "if (x) y;",
      "if (x) { } else { }", "if (x) { } else if (y) { }", "void f() { }",
      "a /* b */ c",
      "if (x) { a = 1; } else if (y) { b = 2; } else { c = 3; }",
      "void f() { if (x) { a = 1; } else if (y) { b = 2; } else { c = 3; } }" }

\* for statements with a classic update clause
ClassicForSources ==
    { ForSource("i = 0", "i < 5", u, b) :
          u \in { "i++", "i--", "i = i + 1" }, b \in ForBodies }

\* a block comment that is opened after a prefix and never closed
CommentPrefixes == { "", "a", "x = 1; " }

CommentTails == { "", "a", "*", " b c", "\n@" }

CommentSource(prefix, tail) == prefix \o "/*" \o tail

\* a op1 1 op2 c for the binary operators of the expression grammar
BinaryOperators ==
    { "||", "&&", "==", "!=", "<", ">", "<=", ">=", "+", "-", "*", "/", "%" }

OperatorSource(op1, op2) == "a " \o op1 \o " 1 " \o op2 \o " c"

\* scanf statements: the first argument as written, and the target
ScanfFormats ==
    { "\"%d\"", "\"%f\"", "\"%s\"", "\"%s %d\"", "\"%f%s\"", "\"a\"",
      "\"\"", "x", "5", "0" }

ScanfTargets == { "&y", "y" }

ScanfSource(format, target) == "scanf(" \o format \o ", " \o target \o ");"

\* printf statements: the text of the format in C with its text in the
\* indentation dialect, and the further arguments
PrintfFormats ==
    { [c |-> "%d", python |-> "{}"], [c |-> "%d %s", python |-> "{} {}"],
      [c |-> "a%f%c\\n", python |-> "a{}{}\\n"], [c |-> "a", python |-> "a"],
      [c |-> "", python |-> ""] }

PrintfArguments == { "x", "x, y", "y, x" }

PrintfSource(format, arguments) ==
    "printf(\"" \o format \o "\", " \o arguments \o ");"

\* string and character literals: the characters between the quotes are
\* plain characters and backslash pairs; the literal is closed at the end of
\* input, closed before more text, or not closed
QuotedBodies(quote) ==
    LET pieces == { "a", " ", "\\n", "\\\\", "\\" \o quote,
                    IF quote = "'" THEN "\"" ELSE "'" }
    IN  { "" } \cup pieces \cup { p \o q : p \in pieces, q \in pieces }

QuotedEndings(quote) == { quote, quote \o " b", "", "\\" }

Quotes == { "\"", "'" }

\* numeric lexemes, without and with a decimal point, and what follows a
\* lexeme that has its decimal point, with the tokens of that text
NumberLexemes ==
    LET integers == { "1", "12", "007" }
    IN  integers \cup { i \o "." \o f : i \in integers, f \in { "", "2", "20" } }

NumberTails ==
    { [text |-> "", types |-> <<>>, values |-> <<>>],
      [text |-> ".", types |-> << "DELIMITER" >>, values |-> << "." >>],
      [text |-> ".3", types |-> << "DELIMITER", "NUMBER" >>,
       values |-> << ".", "3" >>],
      [text |-> "..3", types |-> << "DELIMITER", "DELIMITER", "NUMBER" >>,
       values |-> << ".", ".", "3" >>],
      [text |-> ".3.4", types |-> << "DELIMITER", "NUMBER" >>,
       values |-> << ".", "3.4" >>] }

Sources ==
    ShortSources \cup { AddSource } \cup DanglingElseSources
    \cup MainSources \cup IncludeSources \cup DeclarationSources
    \cup InputOutputSources \cup StraySources \cup CountingSources
    \cup UnrepresentableSources \cup ExpressionSources \cup DispatchSources
    \cup ClassicForSources
    \cup { CommentSource(prefix, tail) :
              prefix \in CommentPrefixes, tail \in CommentTails }
    \cup { OperatorSource(op1, op2) :
              op1 \in BinaryOperators, op2 \in BinaryOperators }
    \cup { ScanfSource(f, t) : f \in ScanfFormats, t \in ScanfTargets }
    \cup { PrintfSource(f.c, a) : f \in PrintfFormats, a \in PrintfArguments }
    \cup { n \o t.text : n \in NumberLexemes, t \in NumberTails }
    \cup { "x = " \o n \o ";" : n \in NumberLexemes }
    \cup { q \o body \o ending :
              q \in Quotes, body \in UNION { QuotedBodies(k) : k \in Quotes },
              ending \in UNION { QuotedEndings(k) : k \in Quotes } }

\* token arrays handed to the parser directly, ill-formed ones included
TokenAlphabet ==
    { [type |-> "KEYWORD", value |-> "if"],
      [type |-> "KEYWORD", value |-> "else"],
      [type |-> "KEYWORD", value |-> "int"],
      [type |-> "KEYWORD", value |-> "printf"],
      [type |-> "IDENTIFIER", value |-> "x"],
      [type |-> "NUMBER", value |-> "1"],
      [type |-> "OPERATOR", value |-> "="],
      [type |-> "DELIMITER", value |-> "("],
      [type |-> "DELIMITER", value |-> ")"],
      [type |-> "DELIMITER", value |-> "{"],
      [type |-> "DELIMITER", value |-> "}"],
      [type |-> "DELIMITER", value |-> ";"],
      [type |-> "NEWLINE", value |-> "\n"],
      EOFToken }

TokenArrays == UNION { [1..n -> TokenAlphabet] : n \in 0..MaxTokens }

\* roots handed to the generator directly: a body that is missing, null, a
\* string, a number or an object, and bodies that are arrays
BodyNodes ==
    { [type |-> "Variable", dataType |-> "int", name |-> "x", value |-> Null],
      [type |-> "ReturnStatement", value |-> Null],
      [type |-> "Include", library |-> "stdio"],
      [type |-> "Function", returnType |-> "int", name |-> "main",
       parameters |-> <<>>, body |-> <<>>],
      [type |-> "Function", returnType |-> "int", name |-> "main",
       parameters |-> <<>>,
       body |-> << [type |-> "ReturnStatement",
                    value |-> [type |-> "Literal", value |-> "0",
                               dataType |-> "int"]] >>],
      [type |-> "Identifier", name |-> "x"] }

MalformedRoot(k) ==
    CASE k = 1 -> [type |-> "Program"]
      [] k = 2 -> [type |-> "Program", body |-> Null]
      [] k = 3 -> [type |-> "Program", body |-> "text"]
      [] k = 4 -> [type |-> "Program", body |-> ""]
      [] k = 5 -> [type |-> "Program", body |-> 0]
      [] k = 6 -> [type |-> "Program",
                   body |-> [type |-> "Block", body |-> <<>>]]
      [] k = 7 -> [type |-> "Block"]

ArrayRoots ==
    { [type |-> "Program", body |-> b] :
        b \in UNION { [1..n -> BodyNodes] : n \in 0..MaxBody } }

Languages == { "java", "python" }

(***************************************************************************)
(* The pipeline: tokenize, parse, generate, as compileCode runs it         *)
(***************************************************************************)
\* nothing has run yet: the state of compileCode's caller before a run.
\* The component starts with the values of its useState hooks, except for
\* the editor, which starts empty as clearCode leaves it (the component
\* mounts with a sample program in it; EditSource types the texts compiled
\* here).
Init ==
    /\ lexer = Null
    /\ tokenList = <<>>
    /\ parser = Null
    /\ abstractSyntaxTree = Null
    /\ outputLanguage = "java"
    /\ output = ""
    /\ stage = "source"
    /\ iterations = 0
    /\ react = [sourceCode |-> "", outputLanguage |-> "java",
                compiledCode |-> "", tokens |-> <<>>, ast |-> Null,
                compilerPhase |-> "source", isCompiling |-> FALSE,
                error |-> Null]
    /\ render = [sourceCode |-> "", outputLanguage |-> "java",
                 isCompiling |-> FALSE]
    /\ runs = <<>>
    /\ pc = <<>>

\* a run of the whole pipeline starts: a lexer is constructed on a source
\* text, for one output language
StartSource ==
    /\ stage = "source"
    /\ \E code \in Sources : lexer' = LexicalAnalyzer(code)
    /\ outputLanguage' \in Languages
    /\ stage' = "lexical"
    /\ UNCHANGED <<tokenList, parser, abstractSyntaxTree, output, iterations,
                   ui>>

\* a parser is constructed on a token array that no lexer produced
StartTokens ==
    /\ stage = "source"
    /\ tokenList' \in TokenArrays
    /\ parser' = SyntaxAnalyzer(tokenList')
    /\ outputLanguage' \in Languages
    /\ stage' = "syntax"
    /\ UNCHANGED <<lexer, abstractSyntaxTree, output, iterations, ui>>

\* a generator is constructed on a root that no parser produced
StartAst ==
    /\ stage = "source"
    /\ \/ abstractSyntaxTree' \in ArrayRoots
       \/ \E k \in 1..7 : abstractSyntaxTree' = MalformedRoot(k)
    /\ outputLanguage' \in Languages
    /\ stage' = "codegen"
    /\ UNCHANGED <<lexer, tokenList, parser, output, iterations, ui>>

\* one iteration of the loop of tokenize
LexStep ==
    /\ stage = "lexical"
    /\ lexer.position < Len(lexer.code)
    /\ lexer' = tokenizeIteration(lexer)
    /\ iterations' = iterations + 1
    /\ UNCHANGED <<tokenList, parser, abstractSyntaxTree, outputLanguage,
                   output, stage, ui>>

\* tokenize returns; the parser is constructed on the tokens
LexEnd ==
    /\ stage = "lexical"
    /\ ~(lexer.position < Len(lexer.code))
    /\ lexer' = tokenizeEnd(lexer)
    /\ tokenList' = lexer'.tokens
    /\ parser' = SyntaxAnalyzer(tokenList')
    /\ stage' = "syntax"
    /\ iterations' = 0
    /\ UNCHANGED <<abstractSyntaxTree, outputLanguage, output, ui>>

\* one iteration of the loop of parse
ParseStep ==
    /\ stage = "syntax"
    /\ parseContinues(parser)
    /\ parser' = parseIteration(parser)
    /\ iterations' = iterations + 1
    /\ UNCHANGED <<lexer, tokenList, abstractSyntaxTree, outputLanguage,
                   output, stage, ui>>

\* parse returns; the generator is constructed on the tree
ParseEnd ==
    /\ stage = "syntax"
    /\ ~parseContinues(parser)
    /\ abstractSyntaxTree' = parser.ast
    /\ stage' = "codegen"
    /\ UNCHANGED <<lexer, tokenList, parser, outputLanguage, output,
                   iterations, ui>>

Generate ==
    /\ stage = "codegen"
    /\ output' = IF outputLanguage = "java"
                 THEN generateJava(abstractSyntaxTree)
                 ELSE generatePython(abstractSyntaxTree)
    /\ stage' = IF output' = Thrown THEN "error" ELSE "complete"
    /\ UNCHANGED <<lexer, tokenList, parser, abstractSyntaxTree,
                   outputLanguage, iterations, ui>>

Next ==
    \/ StartSource
    \/ StartTokens
    \/ StartAst
    \/ LexStep
    \/ LexEnd
    \/ ParseStep
    \/ ParseEnd
    \/ Generate

Spec == Init /\ [][Next]_vars

(***************************************************************************)
(* The CCompiler component: compileCode, clearCode, getPhaseStatus and the *)
(* handlers of the editor and of the language selector.                    *)
(*                                                                         *)
(* A handler reads the state through the constants of the render that      *)
(* created it; a set... call changes the state that the next render will   *)
(* show.  compileCode is an async function: between two awaits it runs     *)
(* without interruption, and at an await any handler may run.              *)
(***************************************************************************)
MaxRuns == 2

\* texts typed into the editor: empty, a statement that compiles, and one on
\* which generatePython throws
UISources == { "", "x = 1;", "printf(x, y);" }

pipeline ==
    <<lexer, tokenList, parser, abstractSyntaxTree, outputLanguage, output,
      stage, iterations>>

\* onChange of the editor: setSourceCode(e.target.value)
EditSource ==
    /\ \E code \in UISources : react' = [react EXCEPT !.sourceCode = code]
    /\ UNCHANGED <<pipeline, render, runs, pc>>

\* onChange of the selector: setOutputLanguage(e.target.value)
SelectLanguage ==
    /\ \E language \in Languages :
           react' = [react EXCEPT !.outputLanguage = language]
    /\ UNCHANGED <<pipeline, render, runs, pc>>

\* the component renders: its handlers now close over the current state
Render ==
    /\ render' = [sourceCode |-> react.sourceCode,
                  outputLanguage |-> react.outputLanguage,
                  isCompiling |-> react.isCompiling]
    /\ render' # render
    /\ UNCHANGED <<pipeline, react, runs, pc>>

\* compileCode is invoked: the guard, then the run up to its first await.
\* runs[r] holds the constants of invocation r (the state it closed over,
\* tokenList, abstractSyntaxTree) while it is suspended and Null once it has
\* returned; pc[r] is the stage it resumes with.
CompileCode ==
    /\ Len(runs) < MaxRuns
    /\ IF render.isCompiling \/ trim(render.sourceCode) = ""
       THEN UNCHANGED <<react, runs, pc>>
       ELSE LET tokens == tokenize(render.sourceCode)
            IN  /\ react' = [react EXCEPT !.isCompiling = TRUE,
                                          !.error = Null,
                                          !.compilerPhase = "lexical",
                                          !.tokens = tokens]
                /\ runs' = Append(runs,
                               [sourceCode |-> render.sourceCode,
                                outputLanguage |-> render.outputLanguage,
                                tokenList |-> tokens,
                                abstractSyntaxTree |-> Null])
                /\ pc' = Append(pc, "syntax")
    /\ UNCHANGED <<pipeline, render>>

\* the first delay of a run is over: Phase 2, up to the second await
ResumeSyntax ==
    \E r \in 1..Len(runs) :
        /\ pc[r] = "syntax"
        /\ LET tree == parse(runs[r].tokenList)
           IN  /\ react' = [react EXCEPT !.compilerPhase = "syntax",
                                         !.ast = tree]
               /\ runs' = [runs EXCEPT ![r].abstractSyntaxTree = tree]
               /\ pc' = [pc EXCEPT ![r] = "codegen"]
        /\ UNCHANGED <<pipeline, render>>

\* ResumeCodegen reading the selector of the current state instead of the
\* outputLanguage of the closure of the run
ResumeCodegen_LiveSelector ==
    \E r \in 1..Len(runs) :
        /\ pc[r] = "codegen"
        /\ LET generated == IF react.outputLanguage = "java"
                            THEN generateJava(runs[r].abstractSyntaxTree)
                            ELSE generatePython(runs[r].abstractSyntaxTree)
           IN  IF generated = Thrown
               THEN /\ react' = [react EXCEPT
                                    !.compiledCode =
                                        "Compilation Error: " \o Thrown,
                                    !.error = Thrown,
                                    !.compilerPhase = "error",
                                    !.isCompiling = FALSE]
                    /\ pc' = [pc EXCEPT ![r] = "returned"]
                    /\ runs' = [runs EXCEPT ![r] = Null]
               ELSE /\ react' = [react EXCEPT !.compilerPhase = "codegen",
                                              !.compiledCode = generated]
                    /\ pc' = [pc EXCEPT ![r] = "complete"]
                    /\ UNCHANGED runs
        /\ UNCHANGED <<pipeline, render>>

\* ResumeCodegen without the finally block on the path through catch
ResumeCodegen_NoFinally ==
    \E r \in 1..Len(runs) :
        /\ pc[r] = "codegen"
        /\ LET generated == IF runs[r].outputLanguage = "java"
                            THEN generateJava(runs[r].abstractSyntaxTree)
                            ELSE generatePython(runs[r].abstractSyntaxTree)
           IN  IF generated = Thrown
               THEN /\ react' = [react EXCEPT
                                    !.compiledCode =
                                        "Compilation Error: " \o Thrown,
                                    !.error = Thrown,
                                    !.compilerPhase = "error"]
                    /\ pc' = [pc EXCEPT ![r] = "returned"]
                    /\ runs' = [runs EXCEPT ![r] = Null]
               ELSE /\ react' = [react EXCEPT !.compilerPhase = "codegen",
                                              !.compiledCode = generated]
                    /\ pc' = [pc EXCEPT ![r] = "complete"]
                    /\ UNCHANGED runs
        /\ UNCHANGED <<pipeline, render>>

\* the second delay is over: Phase 3, up to the third await, or when the
\* generator throws the catch block and the finally block
ResumeCodegen ==
    \E r \in 1..Len(runs) :
        /\ pc[r] = "codegen"
        /\ LET generated == IF runs[r].outputLanguage = "java"
                            THEN generateJava(runs[r].abstractSyntaxTree)
                            ELSE generatePython(runs[r].abstractSyntaxTree)
           IN  IF generated = Thrown
               THEN /\ react' = [react EXCEPT
                                    !.compiledCode =
                                        "Compilation Error: " \o Thrown,
                                    !.error = Thrown,
                                    !.compilerPhase = "error",
                                    !.isCompiling = FALSE]
                    /\ pc' = [pc EXCEPT ![r] = "returned"]
                    /\ runs' = [runs EXCEPT ![r] = Null]
               ELSE /\ react' = [react EXCEPT !.compilerPhase = "codegen",
                                              !.compiledCode = generated]
                    /\ pc' = [pc EXCEPT ![r] = "complete"]
                    /\ UNCHANGED runs
        /\ UNCHANGED <<pipeline, render>>

\* the third delay is over: setCompilerPhase("complete"), then the finally
\* block
ResumeComplete ==
    \E r \in 1..Len(runs) :
        /\ pc[r] = "complete"
        /\ react' = [react EXCEPT !.compilerPhase = "complete",
                                  !.isCompiling = FALSE]
        /\ pc' = [pc EXCEPT ![r] = "returned"]
        /\ runs' = [runs EXCEPT ![r] = Null]
        /\ UNCHANGED <<pipeline, render>>

clearCode ==
    /\ react' = [react EXCEPT !.sourceCode = "", !.compiledCode = "",
                              !.tokens = <<>>, !.ast = Null,
                              !.compilerPhase = "source", !.error = Null]
    /\ UNCHANGED <<pipeline, render, runs, pc>>

\* getPhaseStatus(phase) in a render that shows compilerPhase
getPhaseStatus(compilerPhase, phase) ==
    LET phases == << "source", "lexical", "syntax", "codegen", "complete" >>
        \* Array.prototype.indexOf, 0-based, -1 when absent
        indexOf(value) ==
            IF \E k \in 1..Len(phases) : phases[k] = value
            THEN (CHOOSE k \in 1..Len(phases) : phases[k] = value) - 1
            ELSE -1
        currentIndex == indexOf(compilerPhase)
        phaseIndex   == indexOf(phase)
    IN  IF compilerPhase = "error"
        THEN IF phaseIndex <= currentIndex THEN "error" ELSE "pending"
        ELSE IF currentIndex > phaseIndex THEN "completed"
        ELSE IF currentIndex = phaseIndex THEN "active"
        ELSE "pending"

NextUI ==
    \/ EditSource
    \/ SelectLanguage
    \/ Render
    \/ CompileCode
    \/ ResumeSyntax
    \/ ResumeCodegen
    \/ ResumeComplete
    \/ clearCode

SpecUI == Init /\ [][NextUI]_vars

\* a run suspended in a delay resumes: the pc part of ResumeSyntax,
\* ResumeCodegen and ResumeComplete
resumes(at) ==
    \E r \in 1..Len(pc), next \in { "codegen", "complete", "returned" } :
        /\ pc[r] = at
        /\ pc' = [pc EXCEPT ![r] = next]

\* the timers of the staging delays always fire, and the continuation of an
\* await always runs: no run stays suspended for ever
SpecUIFair ==
    /\ SpecUI
    /\ WF_pc(resumes("syntax"))
    /\ WF_pc(resumes("codegen"))
    /\ WF_pc(resumes("complete"))

(***************************************************************************)
(* Properties                                                              *)
(***************************************************************************)
\* the run started from a source text
FromSource == lexer # Null

Tokenized == FromSource /\ stage # "lexical"

Parsed == stage \in { "codegen", "complete", "error" }

Generated == stage \in { "complete", "error" }

\* T holds exactly one EOF token, its last element, with value null
OneEOFLast(T) ==
    /\ Len(T) >= 1
    /\ T[Len(T)].type = "EOF"
    /\ T[Len(T)].value = Null
    /\ \A i \in 1..(Len(T) - 1) : T[i].type # "EOF"

\* C1: for every source text tokenize terminates (each pass through its
\* loop moves the position forward and the position never passes the end of
\* the text), and the sequence it returns holds exactly one EOF token, which
\* is its last element and has the value null.
C1_TokenizeTotal ==
    /\ stage = "lexical" =>
           /\ iterations <= lexer.position
           /\ lexer.position <= Len(lexer.code)
    /\ Tokenized => tokenList = lexer.tokens /\ OneEOFLast(tokenList)

\* a text with a character that no branch of tokenize reads has been
\* tokenized
C1_Witness ==
    /\ Tokenized
    /\ includes(lexer.code, "@")
    /\ Len(tokenList) >= 2

\* C2: for every token sequence parse terminates (each pass through its
\* loop starts on a token and moves the position forward), and Program.body
\* is never longer than the number of input tokens.
C2_ParseTerminates ==
    parser # Null =>
        /\ iterations <= parser.position
        /\ iterations <= Len(parser.tokens)
        /\ Len(parser.ast.body) <= iterations
        /\ Len(parser.ast.body) <= Len(tokenList)
        /\ Parsed => abstractSyntaxTree = parser.ast

\* a token sequence with an unclosed brace and no EOF token has been parsed
C2_Witness ==
    /\ ~FromSource
    /\ stage = "codegen"
    /\ Len(tokenList) = MaxTokens
    /\ \A i \in 1..Len(tokenList) : tokenList[i].type # "EOF"
    /\ \E i \in 1..Len(tokenList) : tokenList[i].type = "DELIMITER"
                                     /\ tokenList[i].value = "{"
    /\ \A i \in 1..Len(tokenList) : ~(tokenList[i].type = "DELIMITER"
                                      /\ tokenList[i].value = "}")
    /\ Len(abstractSyntaxTree.body) >= 1

\* C3: tokenize, parse and generateJava or generatePython run to completion
\* on every source text with no stage throwing.
C3_NoStageThrows == FromSource => output # Thrown /\ stage # "error"

\* the body of the root is missing or is not an array
MalformedRootBody(ast) == ~("body" \in DOMAIN ast) \/ ~isArray(ast.body)

\* C4: on a root whose body is missing or is not an array generateJava and
\* generatePython return exactly the one-line diagnostic comment and do not
\* throw; on a root whose body is an array they never return it.
C4_InvalidAstDiagnostic ==
    Generated =>
        IF MalformedRootBody(abstractSyntaxTree)
        THEN /\ stage = "complete"
             /\ outputLanguage = "java"
                    => output = "// Error: Invalid AST structure"
             /\ outputLanguage = "python"
                    => output = "# Error: Invalid AST structure"
        ELSE output \notin { "// Error: Invalid AST structure",
                             "# Error: Invalid AST structure" }

\* generatePython has returned the diagnostic for a root whose body is null
C4_Witness ==
    /\ stage = "complete"
    /\ outputLanguage = "python"
    /\ "body" \in DOMAIN abstractSyntaxTree
    /\ ~isArray(abstractSyntaxTree.body)
    /\ output = "# Error: Invalid AST structure"

\* the node that parse returns for the statement s on its own
StatementNode(s) == parse(tokenize(s \o ";")).body[1]

\* C5: for if (a) if (b) s1; else s2; the tree is one outer IfStatement whose
\* else is null and whose then is the inner IfStatement, and the else of the
\* inner IfStatement is the node of s2.
C5_DanglingElseInner ==
    (FromSource /\ Parsed) =>
        \A s1 \in SimpleStatements, s2 \in SimpleStatements :
            lexer.code = DanglingElseSource(s1, s2) =>
                LET body == abstractSyntaxTree.body
                IN  /\ Len(body) = 1
                    /\ body[1].type = "IfStatement"
                    /\ body[1].else = Null
                    /\ body[1].then.type = "IfStatement"
                    /\ body[1].then.then = StatementNode(s1)
                    /\ body[1].then.else = StatementNode(s2)

\* the types of the tokens of T, in order
TokenTypes(T) == [i \in 1..Len(T) |-> T[i].type]

\* the values of the tokens of T before its last one, in order
TokenValues(T) == [i \in 1..(Len(T) - 1) |-> T[i].value]

\* C6: int add(int a, int b) { return a + b; } gives the sixteen tokens
\* listed below followed by EOF, and parsing them gives a Program of exactly one
\* Function add returning int with the parameters (int, a), (int, b) and a
\* body of one ReturnStatement of BinaryExpression(+, a, b).
C6_AddFunction ==
    (FromSource /\ Tokenized /\ lexer.code = AddSource) =>
        /\ TokenTypes(tokenList) =
               << "KEYWORD", "IDENTIFIER", "DELIMITER", "KEYWORD",
                  "IDENTIFIER", "DELIMITER", "KEYWORD", "IDENTIFIER",
                  "DELIMITER", "DELIMITER", "KEYWORD", "IDENTIFIER",
                  "OPERATOR", "IDENTIFIER", "DELIMITER", "DELIMITER", "EOF" >>
        /\ TokenValues(tokenList) =
               << "int", "add", "(", "int", "a", ",", "int", "b", ")", "{",
                  "return", "a", "+", "b", ";", "}" >>
        /\ tokenList[Len(tokenList)].value = Null
        /\ Parsed =>
               abstractSyntaxTree =
                   [type |-> "Program",
                    body |->
                        << [type |-> "Function", returnType |-> "int",
                            name |-> "add",
                            parameters |->
                                << [type |-> "int", name |-> "a"],
                                   [type |-> "int", name |-> "b"] >>,
                            body |->
                                << [type |-> "ReturnStatement",
                                    value |->
                                        [type |-> "BinaryExpression",
                                         left |-> [type |-> "Identifier",
                                                   name |-> "a"],
                                         operator |-> "+",
                                         right |-> [type |-> "Identifier",
                                                    name |-> "b"]]] >>] >>]

\* the add function has been tokenized and parsed
C6_Witness ==
    /\ FromSource
    /\ stage = "codegen"
    /\ lexer.code = AddSource
    /\ Len(abstractSyntaxTree.body) = 1

\* C7: for T main() { S } the tree is one Function node named main whose
\* body is the statements S; generateJava wraps it in public class Main with
\* public static void main(String[] args), generatePython emits def main():
\* and the guarded call of main.
C7_MainEntryPoint ==
    (FromSource /\ Parsed) =>
        \A T \in typeKeywords, S \in MainBodies :
            lexer.code = MainSource(T, S) =>
                LET body == abstractSyntaxTree.body
                IN  /\ Len(body) = 1
                    /\ body[1].type = "Function"
                    /\ body[1].name = "main"
                    /\ body[1].body = parse(tokenize(S)).body
                    /\ (stage = "complete" /\ outputLanguage = "java") =>
                           /\ includes(output, "public class Main")
                           /\ includes(output,
                                  "public static void main(String[] args)")
                    /\ (stage = "complete" /\ outputLanguage = "python") =>
                           /\ includes(output, "def main():")
                           /\ includes(output,
                                  "if __name__ == \"__main__\":\n    main()")

\* the sources of IncludeSources that start with an include directive
WithDirective == IncludeSources \ { FunctionSource }

\* C8: an include directive in either form gives exactly one Include node
\* and the tokens after it are parsed as they are with the directive absent:
\* the directive followed by a function definition gives the body
\* [Include, Function].
C8_IncludeThenFunction ==
    (FromSource /\ Parsed /\ lexer.code \in WithDirective) =>
        LET body == abstractSyntaxTree.body
        IN  /\ Len(body) = 2
            /\ body[1].type = "Include"
            /\ body[2].type = "Function"
            /\ <<body[2]>> = parse(tokenize(FunctionSource)).body

\* the text that the generators emit for an initializer of Initializers
InitializerText(e) ==
    CASE e = "0"    -> "0"
      [] e = "1"    -> "1"
      [] e = "y"    -> "y"
      [] e = "2.50" -> "2.5"
      [] e = "'a'"  -> "\"a\""

\* C9: a Variable without an initializer is emitted with the default value
\* of its declared type (int x; gives x = 0 and int x = 0; and char x; gives
\* x = '' and char x = '\0';), and a Variable with an initializer, the
\* literal 0 included, is emitted with the initializer.
C9_DeclarationDefaults ==
    (FromSource /\ Generated /\ lexer.code \in DeclarationSources) =>
        /\ stage = "complete"
        /\ \A T \in typeKeywords :
               lexer.code = T \o " x;" =>
                   IF outputLanguage = "java"
                   THEN output = "    " \o T \o " x = "
                                 \o getDefaultValue(T) \o ";\n"
                   ELSE output = "x = " \o getPythonDefaultValue(T) \o "\n"
        /\ lexer.code = "int x;" =>
               IF outputLanguage = "java" THEN output = "    int x = 0;\n"
                                          ELSE output = "x = 0\n"
        /\ lexer.code = "char x;" =>
               IF outputLanguage = "java" THEN output = "    char x = '\\0';\n"
                                          ELSE output = "x = ''\n"
        /\ \A T \in typeKeywords, e \in Initializers :
               lexer.code = T \o " x = " \o e \o ";" =>
                   IF outputLanguage = "java"
                   THEN output = "    " \o T \o " x = "
                                 \o InitializerText(e) \o ";\n"
                   ELSE output = "x = " \o InitializerText(e) \o "\n"

\* char x; has been emitted in the indentation dialect
C9_Witness ==
    /\ FromSource
    /\ stage = "complete"
    /\ outputLanguage = "python"
    /\ lexer.code = "char x;"
    /\ output = "x = ''\n"

\* the text s without its character at position p, and with c in its place
RemoveAt(s, p) == SubSeq(s, 1, p) \o SubSeq(s, p + 2, Len(s))

ReplaceAt(s, p, c) == SubSeq(s, 1, p) \o c \o SubSeq(s, p + 2, Len(s))

\* char is neither whitespace, letter, digit, underscore, quote, operator
\* character nor delimiter
isStray(char) ==
    ~(\/ char \in WhitespaceChars
      \/ isLetter(char)
      \/ isDigit(char)
      \/ char = "_"
      \/ char \in { "\"", "'" }
      \/ isOperator(char)
      \/ isDelimiter(char))

\* the passes of the loop of tokenize, from the lexer L on, that find such a
\* character after skipWhitespace: the position of the character and the
\* number of tokens pushed before it
RECURSIVE StrayVisits(_)
StrayVisits(L) ==
    IF L.position < Len(L.code)
    THEN LET W == skipWhitespace(L)
         IN  (IF /\ W.position < Len(W.code)
                 /\ isStray(charAt(W.code, W.position))
              THEN { [position |-> W.position, before |-> Len(W.tokens)] }
              ELSE {})
             \cup StrayVisits(tokenizeIteration(L))
    ELSE {}

\* those of them with a token before the character and a token after it
StraysBetweenTokens(code) ==
    { v \in StrayVisits(LexicalAnalyzer(code)) :
        /\ v.before >= 1
        /\ Len(tokenize(code)) - 1 > v.before }

\* type and value of each token of T, the value of EOF written as ""
TokenTexts(T) ==
    [i \in 1..Len(T) |->
        <<T[i].type, IF T[i].type = "EOF" THEN "" ELSE T[i].value>>]

\* tokenize has just returned
JustTokenized == FromSource /\ stage = "syntax" /\ parser.position = 0

\* C10, with the character removed: for a text with such a character between
\* two tokens the tokens have the types and values of the tokens of the text
\* with the character removed.
C10_StrayRemoved ==
    JustTokenized =>
        \A v \in StraysBetweenTokens(lexer.code) :
            TokenTexts(tokenize(RemoveAt(lexer.code, v.position)))
                = TokenTexts(tokenList)

\* C10: for a text with such a character where tokenize looks for the start
\* of a token, the tokens are those of the text with the character replaced
\* by a space, lines and columns included.
C10_StrayAsSpace ==
    JustTokenized =>
        \A v \in StrayVisits(LexicalAnalyzer(lexer.code)) :
            tokenize(ReplaceAt(lexer.code, v.position, " ")) = tokenList

\* a text with such a character between two tokens has been tokenized
C10_Witness ==
    /\ JustTokenized
    /\ lexer.code = "a@b"
    /\ StraysBetweenTokens(lexer.code) # {}
    /\ Len(tokenList) = 3

\* text.startsWith(prefix)
startsWith(text, prefix) ==
    Len(prefix) <= Len(text) /\ SubSeq(text, 1, Len(prefix)) = prefix

\* generatePython has returned for a source of CountingSources
CountingEmitted ==
    /\ FromSource
    /\ stage = "complete"
    /\ outputLanguage = "python"
    /\ lexer.code \in CountingSources

\* C11, with the bound written 6: for (i = 0; i < 5; i++) gives the header
\* for i in range(0, 5): and with <= the header for i in range(0, 6):.
C11_BoundSix ==
    CountingEmitted =>
        \A b \in ForBodies :
            /\ lexer.code = ForSource("i = 0", "i < 5", "i++", b)
                   => startsWith(output, "for i in range(0, 5):\n")
            /\ lexer.code = ForSource("i = 0", "i <= 5", "i++", b)
                   => startsWith(output, "for i in range(0, 6):\n")

\* C11: for (i = 0; i < 5; i++) gives the header for i in range(0, 5): and
\* with <= the header for i in range(0, 5 + 1):, the bound being the text of
\* the right operand followed by + 1.
C11_ForHeader ==
    (FromSource /\ Generated /\ outputLanguage = "python"
       /\ lexer.code \in CountingSources) =>
        /\ stage = "complete"
        /\ \A b \in ForBodies :
               /\ lexer.code = ForSource("i = 0", "i < 5", "i++", b)
                      => startsWith(output, "for i in range(0, 5):\n")
               /\ lexer.code = ForSource("i = 0", "i <= 5", "i++", b)
                      => startsWith(output, "for i in range(0, 5 + 1):\n")

\* the loop with <= has been emitted in the indentation dialect
C11_Witness ==
    /\ CountingEmitted
    /\ lexer.code = ForSource("i = 0", "i <= 5", "i++", "{ }")
    /\ startsWith(output, "for i in range(0, 5 + 1):\n")

\* C12: for a ForLoop whose condition is not a < or <= comparison, or whose
\* initializer does not set the loop variable, generatePython does not throw
\* and emits the placeholder comment and no range(...) loop.
C12_UnrepresentableFor ==
    (FromSource /\ Generated /\ outputLanguage = "python"
       /\ lexer.code \in UnrepresentableSources) =>
        /\ stage = "complete"
        /\ includes(output, "# For loop conversion needed")
        /\ ~includes(output, "range(")

\* C13: the text emitted by generateJavaExpression and by
\* generatePythonExpression for the parsed tree of an expression over
\* identifiers, integer literals, binary operators and parentheses parses
\* again to the same tree, so that source parentheses keep their grouping.
C13_ExpressionRoundTrip ==
    (FromSource /\ Parsed /\ lexer.code \in ExpressionSources) =>
        LET tree == abstractSyntaxTree.body[1].value
            \* tokenize, then parseExpression from the first token
            ExpressionTree(text) ==
                this("parseExpression", tokenize(text), 0).node
        IN  /\ ExpressionTree(generateJavaExpression(tree)) = tree
            /\ ExpressionTree(generatePythonExpression(tree)) = tree

\* C14: a call of parseStatement with the cursor on any token of the array
\* (the calls of the parse loop and the nested calls alike) returns with the
\* cursor strictly greater than at entry, and the cursor of the parser is
\* never negative.
C14_CursorAdvances ==
    stage = "syntax" =>
        /\ parser.position >= 0
        /\ \A p \in 0..(Len(parser.tokens) - 1) :
               this("parseStatement", parser.tokens, p).position > p

\* the step-back of the identifier path has been taken at the first token and
\* the parse loop has moved past it
C14_Witness ==
    /\ stage = "syntax"
    /\ Len(parser.tokens) >= 2
    /\ parser.tokens[1].type = "IDENTIFIER"
    /\ ~valueIs(parser.tokens[2], "(")
    /\ ~(\E op \in assignmentOperators : valueIs(parser.tokens[2], op))
    /\ parser.position = 1
    /\ iterations = 1

\* C15: parsing for (init; cond; update) body with the update i++, i-- or
\* i = i + 1 yields exactly one node, a ForLoop whose init, condition and
\* update hold the three clauses (the update is more than the bare identifier)
\* and whose body holds the statement after the closing parenthesis, with
\* no sibling node after the ForLoop.
C15_ForLoopSingleNode ==
    (FromSource /\ Parsed /\ lexer.code \in ClassicForSources) =>
        LET body == abstractSyntaxTree.body
        IN  /\ Len(body) = 1
            /\ body[1].type = "ForLoop"
            /\ body[1].init # Null
            /\ body[1].condition # Null
            /\ body[1].update # Null
            /\ body[1].update # [type |-> "Identifier", name |-> "i"]
            /\ body[1].body # Null

\* C16: when the source holds a block comment opening that no closing
\* follows, the tokens returned are the tokens of the text before the
\* opening, whatever the characters up to the end of input are.
C16_UnterminatedComment ==
    (FromSource /\ Tokenized) =>
        \A prefix \in CommentPrefixes, tail \in CommentTails :
            lexer.code = CommentSource(prefix, tail) =>
                tokenList = tokenize(prefix)

\* C17: a op1 1 op2 c parses to (a op1 1) op2 c when op2 does not bind
\* tighter than op1, and to a op1 (1 op2 c) when it does, for the order
\* || < && < ==,!= < <,>,<=,>= < +,- < *,/,%.
C17_PrecedenceLeftAssociative ==
    (FromSource /\ Parsed) =>
        LET a   == [type |-> "Identifier", name |-> "a"]
            one == [type |-> "Literal", value |-> "1", dataType |-> "int"]
            c   == [type |-> "Identifier", name |-> "c"]
            Precedence(op) ==
                CASE op = "||" -> 1
                  [] op = "&&" -> 2
                  [] op \in {"==", "!="} -> 3
                  [] op \in {"<", ">", "<=", ">="} -> 4
                  [] op \in {"+", "-"} -> 5
                  [] op \in {"*", "/", "%"} -> 6
        IN  \A op1 \in BinaryOperators, op2 \in BinaryOperators :
                lexer.code = OperatorSource(op1, op2) =>
                    abstractSyntaxTree.body =
                        << IF Precedence(op2) > Precedence(op1)
                           THEN BinaryExpression(a, op1,
                                    BinaryExpression(one, op2, c))
                           ELSE BinaryExpression(
                                    BinaryExpression(a, op1, one), op2, c) >>

\* a - 1 - c has been parsed
C17_Witness ==
    /\ FromSource /\ Parsed
    /\ lexer.code = OperatorSource("-", "-")
    /\ abstractSyntaxTree.body[1].left.operator = "-"
    /\ abstractSyntaxTree.body[1].right = [type |-> "Identifier", name |-> "c"]

\* the lines of an emitted text: the pieces between its "\n"
RECURSIVE Lines(_)
Lines(text) ==
    LET end == indexOfFrom(text, "\n", 1)
    IN  IF end = 0 THEN << text >>
        ELSE << SubSeq(text, 1, end - 1) >>
             \o Lines(SubSeq(text, end + 1, Len(text)))

\* the number of spaces a line begins with
RECURSIVE Indentation(_)
Indentation(line) ==
    IF Len(line) > 0 /\ SubSeq(line, 1, 1) = " "
    THEN 1 + Indentation(SubSeq(line, 2, Len(line)))
    ELSE 0

\* a line that opens a compound statement of the indentation dialect
isCompoundHeader(line) ==
    LET header == trim(line)
    IN  /\ Len(header) > 0
        /\ SubSeq(header, Len(header), Len(header)) = ":"
        /\ \E word \in {"def ", "if ", "elif ", "else:", "while ", "for "} :
               startsWith(header, word)

\* C18: in the Python text emitted for a parsed source every compound header
\* line (def, if, elif, else:, while, for) is followed at once by a line
\* indented more deeply (pass when the body yields no statement text); in the
\* Java text an empty statement list puts nothing between the braces.
C18_BodyNeverEmpty ==
    (FromSource /\ stage = "complete") =>
        /\ outputLanguage = "python" =>
               LET lines == Lines(output)
               IN  \A i \in 1..Len(lines) :
                       isCompoundHeader(lines[i]) =>
                           /\ i < Len(lines)
                           /\ Indentation(lines[i + 1]) > Indentation(lines[i])
        /\ (outputLanguage = "java" /\ lexer.code = "while (x) { }") =>
               output = "    while (x) {\n    }\n"

\* C19: in the Java text emitted for a Function named main the acquisition
\* of the scanner is the first statement of main, and no return statement of
\* main is reached without the release scanner.close() just before it, so
\* that the release is reached on every path that leaves main.
C19_ScannerReleasedOnReturn ==
    LET MainHeader == "    public static void main(String[] args) {"
        lines      == Lines(output)
        \* line i lies inside the main method: after its header and before
        \* the line that closes it
        inMain(i)  == \E h \in 1..(i - 1) :
                          /\ lines[h] = MainHeader
                          /\ \A k \in h..i : lines[k] # "    }"
    IN  (stage = "complete" /\ outputLanguage = "java"
           /\ includes(output, MainHeader)) =>
            \A i \in 1..Len(lines) :
                /\ lines[i] = MainHeader =>
                       /\ i < Len(lines)
                       /\ lines[i + 1] =
                              "        Scanner scanner = new Scanner(System.in);"
                /\ (inMain(i) /\ startsWith(trim(lines[i]), "return"))
                       => lines[i - 1] = "        scanner.close();"

\* C20: for a scanf statement with two arguments each generator emits one
\* assignment to the second argument, with a leading & dropped, of the read
\* that the text of the first argument selects: %d the integer read,
\* otherwise %f the float read, otherwise %s the string read, and the
\* integer read when it holds none of these markers.
C20_ScanfAssignment ==
    LET java == outputLanguage = "java"
        \* the read that the markers of a first argument select
        SelectedRead(format) ==
            IF includes(format, "%d")
            THEN IF java THEN "scanner.nextInt();" ELSE "int(input())"
            ELSE IF includes(format, "%f")
            THEN IF java THEN "scanner.nextFloat();" ELSE "float(input())"
            ELSE IF includes(format, "%s")
            THEN IF java THEN "scanner.next();" ELSE "input()"
            ELSE IF java THEN "scanner.nextInt();" ELSE "int(input())"
    IN  (FromSource /\ Generated) =>
            \A f \in ScanfFormats, t \in ScanfTargets :
                lexer.code = ScanfSource(f, t) =>
                    /\ stage = "complete"
                    /\ output = (IF java THEN "    " ELSE "")
                                \o "y = " \o SelectedRead(f) \o "\n"

\* C21: printf with a string-literal format and further arguments is
\* emitted as System.out.printf(fmt, a1, ..., ak) and as
\* print("fmt'".format(a1, ..., ak)), fmt' holding {} for each of %d, %s, %f,
\* %c and the arguments keeping their order; with the one argument "hi" it is
\* println("hi") and print("hi"), and with no argument println() and print().
C21_PrintfEmitted ==
    LET java == outputLanguage = "java"
    IN  (FromSource /\ Generated) =>
            /\ \A f \in PrintfFormats, a \in PrintfArguments :
                   lexer.code = PrintfSource(f.c, a) =>
                       /\ stage = "complete"
                       /\ output =
                              IF java
                              THEN "    System.out.printf(\"" \o f.c \o "\", "
                                   \o a \o ");\n"
                              ELSE "print(\"" \o f.python \o "\".format("
                                   \o a \o "))\n"
            /\ lexer.code = "printf(\"hi\");" =>
                   /\ stage = "complete"
                   /\ output = IF java THEN "    System.out.println(\"hi\");\n"
                               ELSE "print(\"hi\")\n"
            /\ lexer.code = "printf();" =>
                   /\ stage = "complete"
                   /\ output = IF java THEN "    System.out.println();\n"
                               ELSE "print()\n"

\* C22: a string or character literal yields one STRING token whose value
\* is the raw text between the opening quote and the first unescaped closing
\* quote of the same kind, a backslash and the character after it copied as
\* they are; a literal that is not closed runs to the end of input.
C22_RawLiteral ==
    (FromSource /\ Tokenized) =>
        \A q \in Quotes :
            \A body \in QuotedBodies(q), ending \in QuotedEndings(q) :
                lexer.code = q \o body \o ending =>
                    /\ TokenTypes(tokenList) =
                           IF ending = q \o " b"
                           THEN << "STRING", "IDENTIFIER", "EOF" >>
                           ELSE << "STRING", "EOF" >>
                    /\ tokenList[1].value =
                           IF ending = "\\" THEN body \o "\\" ELSE body

\* a closed literal holding an escaped quote and then a backslash pair has
\* been tokenized
C22_Witness ==
    /\ FromSource /\ Tokenized
    /\ lexer.code = "\"\\\"\\n\" b"
    /\ tokenList[1].value = "\\\"\\n"
    /\ Len(tokenList) = 3

\* C23: a numeric lexeme runs from a digit over the digits and at most one
\* decimal point that follow; after a lexeme with a decimal point a further
\* point is a DELIMITER token of its own and digits after it start a new
\* NUMBER, as in 1.2.3; no digit and point sequence stops the lexer.
C23_NumberLexeme ==
    (FromSource /\ Tokenized) =>
        \A n \in NumberLexemes, t \in NumberTails :
            (lexer.code = n \o t.text /\ (t.text = "" \/ includes(n, "."))) =>
                /\ TokenTypes(tokenList) = << "NUMBER" >> \o t.types \o << "EOF" >>
                /\ TokenValues(tokenList) = << n >> \o t.values

\* 1.2.3 has been tokenized
C23_Witness ==
    /\ FromSource /\ Tokenized
    /\ lexer.code = "1.2.3"
    /\ Len(tokenList) = 4
    /\ tokenList[2].type = "DELIMITER"

\* C24: a numeric literal is emitted by both generators as the text of its
\* source lexeme: x = t; is emitted with t unchanged, so 2.0 stays 2.0 and
\* 007 stays 007.
C24_NumberTextKept ==
    (FromSource /\ Generated) =>
        \A n \in NumberLexemes :
            lexer.code = "x = " \o n \o ";" =>
                /\ stage = "complete"
                /\ output = IF outputLanguage = "java"
                            THEN "    x = " \o n \o ";\n"
                            ELSE "x = " \o n \o "\n"

\* C27: in the Python text of an if, else if, else chain the elif and the
\* else: line stand at the indentation of the if that starts the chain and
\* the body of each branch one level deeper, at the top level and inside a
\* function body alike.
C27_ElifIndentation ==
    (FromSource /\ stage = "complete" /\ outputLanguage = "python") =>
        /\ lexer.code
             = "if (x) { a = 1; } else if (y) { b = 2; } else { c = 3; }" =>
               output = "if x:\n    a = 1\nelif y:\n    b = 2\nelse:\n    c = 3\n"
        /\ lexer.code
             = "void f() { if (x) { a = 1; } else if (y) { b = 2; } else { c = 3; } }"
             => output = "def f():\n    if x:\n        a = 1\n    elif y:\n"
                         \o "        b = 2\n    else:\n        c = 3\n\n"

\* C25: what one compileCode run stores is derived from the source text and
\* the selector its closure held when it started, in the order tokens, AST,
\* output: the run starts by storing the tokens of that text, its second
\* stage stores the AST of those tokens, its third stage stores the output
\* generated from that AST for that selector (or the error text), and its
\* last stage stores none of the three; no step changes the text, the
\* selector, the tokens or the AST a suspended run works from.
C25_RunUsesItsClosure ==
    [][\A r \in 1..Len(runs') :
          IF r > Len(runs)
          THEN /\ runs'[r].sourceCode = render.sourceCode
               /\ runs'[r].outputLanguage = render.outputLanguage
               /\ runs'[r].tokenList = tokenize(render.sourceCode)
               /\ react'.tokens = runs'[r].tokenList
               /\ pc'[r] = "syntax"
          ELSE /\ pc'[r] # "returned" =>
                    /\ runs'[r].sourceCode = runs[r].sourceCode
                    /\ runs'[r].outputLanguage = runs[r].outputLanguage
                    /\ runs'[r].tokenList = runs[r].tokenList
               /\ pc'[r] = pc[r] => runs'[r] = runs[r]
               /\ pc'[r] # pc[r] =>
                    CASE pc[r] = "syntax" ->
                             /\ pc'[r] = "codegen"
                             /\ react'.tokens = react.tokens
                             /\ react'.ast = parse(runs[r].tokenList)
                             /\ runs'[r].abstractSyntaxTree = react'.ast
                             /\ react'.compiledCode = react.compiledCode
                      [] pc[r] = "codegen" ->
                             LET tree      == runs[r].abstractSyntaxTree
                                 generated ==
                                     IF runs[r].outputLanguage = "java"
                                     THEN generateJava(tree)
                                     ELSE generatePython(tree)
                             IN  /\ pc'[r] \in { "complete", "returned" }
                                 /\ react'.tokens = react.tokens
                                 /\ react'.ast = react.ast
                                 /\ react'.compiledCode =
                                        IF generated = Thrown
                                        THEN "Compilation Error: " \o Thrown
                                        ELSE generated
                      [] pc[r] = "complete" ->
                             /\ pc'[r] = "returned"
                             /\ react'.tokens = react.tokens
                             /\ react'.ast = react.ast
                             /\ react'.compiledCode = react.compiledCode
                      [] OTHER -> FALSE]_vars

\* a run has stored its output after both the text and the selector were
\* changed during its delays
C25_Witness ==
    \E r \in 1..Len(runs) :
        /\ pc[r] = "complete"
        /\ react.sourceCode \notin { "", runs[r].sourceCode }
        /\ react.outputLanguage # runs[r].outputLanguage
        /\ react.ast = runs[r].abstractSyntaxTree
        /\ react.compiledCode =
               IF runs[r].outputLanguage = "java"
               THEN generateJava(parse(tokenize(runs[r].sourceCode)))
               ELSE generatePython(parse(tokenize(runs[r].sourceCode)))

\* C26: every compileCode run that passed its guard returns; the step on
\* which it returns resets isCompiling, and sets compilerPhase to "complete"
\* when no stage threw, or to "error" with the message stored in error and
\* shown in compiledCode when a stage threw; the steps of a run set
\* compilerPhase to lexical, syntax, codegen, complete in that order.
C26_RunFinishes ==
    /\ \A r \in 1..MaxRuns :
           (Len(runs) >= r) ~> (Len(runs) >= r /\ pc[r] = "returned")
    /\ [][\A r \in 1..Len(runs') :
             IF r > Len(runs)
             THEN /\ pc'[r] = "syntax"
                  /\ react'.compilerPhase = "lexical"
                  /\ react'.isCompiling
             ELSE pc'[r] # pc[r] =>
                    CASE pc[r] = "syntax" ->
                             /\ pc'[r] = "codegen"
                             /\ react'.compilerPhase = "syntax"
                      [] pc[r] = "codegen" /\ pc'[r] = "complete" ->
                             react'.compilerPhase = "codegen"
                      [] pc[r] = "codegen" /\ pc'[r] = "returned" ->
                             /\ react'.compilerPhase = "error"
                             /\ react'.error = Thrown
                             /\ react'.compiledCode =
                                    "Compilation Error: " \o react'.error
                             /\ ~ react'.isCompiling
                      [] pc[r] = "complete" ->
                             /\ pc'[r] = "returned"
                             /\ react'.compilerPhase = "complete"
                             /\ react'.error = react.error
                             /\ ~ react'.isCompiling
                      [] OTHER -> FALSE]_vars

\* two runs have returned, the last of them through catch
C26_Witness ==
    /\ Len(pc) = 2
    /\ \A r \in 1..2 : pc[r] = "returned"
    /\ react.compilerPhase = "error"
    /\ react.error = Thrown
    /\ react.compiledCode = "Compilation Error: " \o Thrown
    /\ ~ react.isCompiling

\* C28: at most one compileCode run is in progress at any time, that is
\* between its start and its finally block: an invocation made while
\* another run is in progress returns at the guard.
C28_OneRunAtATime ==
    Cardinality({ r \in 1..Len(pc) : pc[r] # "returned" }) <= 1

\* C29: once clearCode has emptied compiledCode and tokens, set ast to null
\* and compilerPhase to "source", the four stay so on every step that does
\* not start a compileCode run, also while a run is suspended in a delay.
C29_ClearedStaysCleared ==
    [][LET cleared(state) ==
               /\ state.compiledCode = ""
               /\ state.tokens = <<>>
               /\ state.ast = Null
               /\ state.compilerPhase = "source"
       IN  (cleared(react) /\ Len(pc') = Len(pc)) => cleared(react')]_vars

\* C30: when compilerPhase is "error", getPhaseStatus returns "error" for at
\* least one of the five phases and "pending" for the others.
C30_ErrorPhaseShown ==
    LET phases == { "source", "lexical", "syntax", "codegen", "complete" }
    IN  react.compilerPhase = "error" =>
            /\ \E phase \in phases :
                   getPhaseStatus(react.compilerPhase, phase) = "error"
            /\ \A phase \in phases :
                   getPhaseStatus(react.compilerPhase, phase)
                       \in { "error", "pending" }

====
